---- MODULE Spec2Model ----
(***************************************************************************)
(* The reservation protocol of Valerixy: the Order coordinator (HTTP       *)
(* create / cancel), the Inventory custodian (gRPC ReserveStock /          *)
(* ReleaseStock over one transactional stock repository), the verify-orders*)
(* queue consumer and the inventory-events consumer of the order service.  *)
(*                                                                         *)
(* Every await of the source is a possible suspension point.  Steps that   *)
(* only touch state no other task reads before the next step (publishing   *)
(* to order-events, issuing the RPC, sending the reply) are folded into    *)
(* the database step that precedes them; every read-then-write pair of the *)
(* source that another task can split is kept as two actions.              *)
(***************************************************************************)
EXTENDS Integers, Sequences, FiniteSets, Bags, TLC

----------------------------------------------------------------------------
(* Bounds of the model *)

InitStock == 2
MaxBusFail == 1
MaxRedeliver == 1
MaxCancels == 2
MaxReservationId == 2

(* HTTP create requests; the order a request inserts gets the request's
   number as its uuid. *)
Requests == {1, 2}

(* products table: one seeded product; "p0" is an id with no row. *)
ExistingProducts == {"p1"}
lowStockThreshold == 1

(* Null / undefined of the source, per type. *)
NullId == 0
NoKey == ""
NoText == ""
Undefined == -1

----------------------------------------------------------------------------
(* Request inputs *)

Input(customerId, productId, quantity, key) ==
  [customerId |-> customerId, productId |-> productId, quantity |-> quantity,
   key |-> key]

InvalidInputs ==
  { Input("", "p1", 1, NoKey), Input("c1", "", 1, NoKey),
    Input("c1", "p1", 0, NoKey), Input("c1", "p1", -1, NoKey) }

(* One create request, with every disturbance of the environment: a cancel,
   rejected bus sends, duplicate deliveries. *)
SingleInputs ==
  { Input("c1", "p1", 1, NoKey), Input("c1", "p1", 1, "k"),
    Input("c1", "p1", InitStock + 1, NoKey), Input("c1", "p0", 1, NoKey) }
  \cup InvalidInputs

(* Two concurrent create requests on the seeded product: the same client key,
   a client key equal to the other order's derived verify key, or no client
   keys.  A pair stands for both orders of arrival. *)
PairInputs ==
  { <<Input("c1", "p1", q1, k[1]), Input("c1", "p1", q2, k[2])>> :
      q1 \in {1, InitStock}, q2 \in {1, InitStock},
      k \in {<<"k", "k">>, <<"k", "verify-k">>, <<NoKey, NoKey>>} }

NoInput == [customerId |-> "", productId |-> "", quantity |-> 0, key |-> NoKey]

(* uuidv4() of a request without a client key *)
uuidv4(r) == IF r = 1 THEN "u1" ELSE IF r = 2 THEN "u2" ELSE "u3"

(* const requestIdempotencyKey = idempotencyKey || uuidv4() *)
requestIdempotencyKey(r, in) == IF in.key # NoKey THEN in.key ELSE uuidv4(r)

(* The verify handler reserving under the original key. *)
verifyKey_plain(k) == k

(* `verify-${idempotencyKey}` *)
verifyKey(k) == "verify-" \o k

VARIABLES
  orders,        \* Order DB, orders table: order id -> row
  req,           \* the POST /orders handlers
  rpc,           \* the ReserveStock call of each request and its server handler
  stock,         \* Inventory DB, products.stock
  reservations,  \* Inventory DB, reservations table, in insertion order
  audit,         \* Inventory DB, stock_audit_log, in insertion order
  verifyQ,       \* the verify-orders queue
  vh,            \* the VerifyOrder consumer's message in progress
  invEvents,     \* inventory-events, subscription order-service-sub
  invLog,        \* every event published to inventory-events
  oc,            \* the inventory-events consumer's message in progress
  ordEvents,     \* every event published to order-events
  cancel,        \* the POST /orders/:id/cancel handler
  lateRelease,   \* ReleaseStock calls whose client gave up before the server ran
  failBudget,    \* Service Bus send rejections still allowed
  dupBudget      \* duplicate deliveries still allowed

vars == <<orders, req, rpc, stock, reservations, audit, verifyQ, vh, invEvents,
          invLog, oc, ordEvents, cancel, lateRelease, failBudget, dupBudget>>

orderVars == <<orders, ordEvents>>
invVars == <<stock, reservations, audit>>

----------------------------------------------------------------------------
(* Order DB: orderRepository *)

Terminal == {"confirmed", "failed", "cancelled"}

(* The orders table without the UNIQUE constraint on idempotency_key. *)
ordersKeyUnique_absent(key) == TRUE

(* A second INSERT with the same non-null idempotency_key is rejected by the
   UNIQUE constraint of orders.idempotency_key. *)
ordersKeyUnique(key) ==
  key = NoKey \/ \A o \in DOMAIN orders : orders[o].idempotencyKey # key

(* INSERT INTO orders (...) VALUES (..., 'pending', key) RETURNING * *)
newOrderRow(in, key) ==
  [customerId |-> in.customerId, productId |-> in.productId,
   quantity |-> in.quantity, status |-> "pending", idempotencyKey |-> key,
   reservationId |-> NullId, completedAt |-> FALSE, errorMessage |-> NoText]

(* A lookup by idempotency key that never finds a row. *)
getOrderByIdempotencyKey_blind(key) == {}

(* SELECT * FROM orders WHERE idempotency_key = $1 : the ids of the rows *)
getOrderByIdempotencyKey(key) ==
  {o \in DOMAIN orders : orders[o].idempotencyKey = key}

(* An UPDATE that matches no row. *)
updateOrderStatus_norow(ords, orderId, status, reservationId, errorMessage) == ords

(* An UPDATE that never sets completed_at. *)
updateOrderStatus_nostamp(ords, orderId, status, reservationId, errorMessage) ==
  IF orderId \notin DOMAIN ords THEN ords
  ELSE [ords EXCEPT ![orderId] =
         [@ EXCEPT !.status = status,
                   !.reservationId = IF reservationId # Undefined THEN reservationId ELSE @,
                   !.errorMessage = IF errorMessage # NoText THEN errorMessage ELSE @]]

(* UPDATE orders SET status = $1 [, reservation_id] [, error_message]
   [, completed_at] WHERE id = $n : the orders table afterwards.  The
   statement has no condition on the current status. *)
updateOrderStatus(ords, orderId, status, reservationId, errorMessage) ==
  IF orderId \notin DOMAIN ords THEN ords
  ELSE [ords EXCEPT ![orderId] =
         [@ EXCEPT !.status = status,
                   !.reservationId = IF reservationId # Undefined THEN reservationId ELSE @,
                   !.errorMessage = IF errorMessage # NoText THEN errorMessage ELSE @,
                   !.completedAt = IF status \in Terminal THEN TRUE ELSE @]]

----------------------------------------------------------------------------
(* Inventory DB: stockRepository *)

ReserveResult(success, message, reservationId, remainingStock, status) ==
  [success |-> success, message |-> message, reservationId |-> reservationId,
   remainingStock |-> remainingStock, status |-> status]

NoResult == ReserveResult(FALSE, NoText, NullId, Undefined, "none")

(* SELECT * FROM reservations WHERE idempotency_key = $1 : the row indexes *)
reservationsByKey(key) ==
  IF key = NoKey THEN {}
  ELSE {i \in 1..Len(reservations) : reservations[i].idempotencyKey = key}

(* reserveStock, the branch taken when the key lookup finds a row
   (rows[0]; the key is unique, so there is one). *)
alreadyExists(i) ==
  ReserveResult(TRUE, "Reservation already exists (idempotent)",
                reservations[i].id, Undefined, "already_exists")

(* The reservations table without the UNIQUE constraint on idempotency_key. *)
reservationKeyUnique_absent(key) == TRUE

(* The UNIQUE constraint of reservations.idempotency_key at INSERT time. *)
reservationKeyUnique(key) == reservationsByKey(key) = {}

(* SELECT * FROM products WHERE id = $1 FOR UPDATE waits while another
   transaction holds the lock of the row; a product without a row locks
   nothing.  The holders are the reserveStock transactions between their
   FOR UPDATE and their COMMIT / ROLLBACK. *)
rowLockFree_absent(productId) == TRUE

rowLockFree(productId) ==
  \/ productId \notin ExistingProducts
  \/ /\ \A r \in Requests :
          ~(rpc[r].st = "locked" /\ req[r].in.productId = productId)
     /\ ~(vh.pc = "locked" /\ vh.msg.productId = productId)

(* A read that returns the seeded stock whatever was committed since. *)
currentStockOf_seed(productId) ==
  IF productId \in ExistingProducts THEN InitStock ELSE Undefined

(* const currentStock = product.stock, of the row FOR UPDATE returned *)
currentStockOf(productId) ==
  IF productId \in ExistingProducts THEN stock[productId] ELSE Undefined

(* reserveStock from the row returned by FOR UPDATE (currentStock is its
   stock): the product and stock tests, UPDATE products SET stock = newStock,
   INSERT reservations, INSERT stock_audit_log, COMMIT; a unique violation at
   the INSERT rolls the UPDATE back and throws. *)
reserveTx(orderId, productId, quantity, key, currentStock) ==
  LET same == [stock |-> stock, reservations |-> reservations, audit |-> audit] IN
  IF productId \notin ExistingProducts THEN
    same @@ [threw |-> FALSE,
             result |-> ReserveResult(FALSE, "Product not found", NullId, Undefined,
                                      "product_not_found")]
  ELSE IF currentStock < quantity THEN
    same @@ [threw |-> FALSE,
             result |-> ReserveResult(FALSE, "Insufficient stock", NullId,
                                      currentStock, "insufficient_stock")]
  ELSE IF ~reservationKeyUnique(key) THEN
    same @@ [threw |-> TRUE, result |-> NoResult]
  ELSE
    LET newStock == currentStock - quantity
        reservationId == Len(reservations) + 1
    IN [threw |-> FALSE,
        result |-> ReserveResult(TRUE, "Stock reserved successfully", reservationId,
                                 newStock, "confirmed"),
        stock |-> [stock EXCEPT ![productId] = newStock],
        reservations |-> Append(reservations,
           [id |-> reservationId, orderId |-> orderId, productId |-> productId,
            quantity |-> quantity, status |-> "active", idempotencyKey |-> key]),
        audit |-> Append(audit,
           [productId |-> productId, operation |-> "reserve",
            quantityChange |-> -quantity, previousStock |-> currentStock,
            newStock |-> newStock, orderId |-> orderId,
            reservationId |-> reservationId])]

(* A release that marks the reservation committed and rewrites its quantity
   to 0. *)
releaseTx_committed(orderId, reservationId) ==
  LET same == [stock |-> stock, reservations |-> reservations, audit |-> audit,
               productId |-> NoText]
      rows == {i \in 1..Len(reservations) :
                 reservations[i].id = reservationId /\ reservations[i].orderId = orderId}
  IN
  IF rows = {} THEN same @@ [success |-> FALSE]
  ELSE LET i == CHOOSE j \in rows : TRUE
           reservation == reservations[i]
       IN
       IF reservation.status # "active" THEN same @@ [success |-> FALSE]
       ELSE LET currentStock == stock[reservation.productId]
                newStock == currentStock + reservation.quantity
            IN [success |-> TRUE, productId |-> reservation.productId,
                stock |-> [stock EXCEPT ![reservation.productId] = newStock],
                reservations |-> [reservations EXCEPT ![i].status = "committed",
                                                      ![i].quantity = 0],
                audit |-> Append(audit,
                   [productId |-> reservation.productId, operation |-> "release",
                    quantityChange |-> reservation.quantity,
                    previousStock |-> currentStock, newStock |-> newStock,
                    orderId |-> orderId, reservationId |-> reservationId])]

(* releaseStock without the test of the reservation's status. *)
releaseTx_anystatus(orderId, reservationId) ==
  LET same == [stock |-> stock, reservations |-> reservations, audit |-> audit,
               productId |-> NoText]
      rows == {i \in 1..Len(reservations) :
                 reservations[i].id = reservationId /\ reservations[i].orderId = orderId}
  IN
  IF rows = {} THEN same @@ [success |-> FALSE]
  ELSE LET i == CHOOSE j \in rows : TRUE
           reservation == reservations[i]
           currentStock == stock[reservation.productId]
           newStock == currentStock + reservation.quantity
       IN [success |-> TRUE, productId |-> reservation.productId,
           stock |-> [stock EXCEPT ![reservation.productId] = newStock],
           reservations |-> [reservations EXCEPT ![i].status = "released"],
           audit |-> Append(audit,
              [productId |-> reservation.productId, operation |-> "release",
               quantityChange |-> reservation.quantity,
               previousStock |-> currentStock, newStock |-> newStock,
               orderId |-> orderId, reservationId |-> reservationId])]

(* releaseStock: the reservation row is locked first; for an active
   reservation the product row is locked (productId), its stock read and
   restored, the reservation marked released, the audit row inserted. *)
releaseTx(orderId, reservationId) ==
  LET same == [stock |-> stock, reservations |-> reservations, audit |-> audit,
               productId |-> NoText]
      rows == {i \in 1..Len(reservations) :
                 reservations[i].id = reservationId /\ reservations[i].orderId = orderId}
  IN
  IF rows = {} THEN same @@ [success |-> FALSE]
  ELSE LET i == CHOOSE j \in rows : TRUE
           reservation == reservations[i]
       IN
       IF reservation.status # "active" THEN same @@ [success |-> FALSE]
       ELSE LET currentStock == stock[reservation.productId]
                newStock == currentStock + reservation.quantity
            IN [success |-> TRUE, productId |-> reservation.productId,
                stock |-> [stock EXCEPT ![reservation.productId] = newStock],
                reservations |-> [reservations EXCEPT ![i].status = "released"],
                audit |-> Append(audit,
                   [productId |-> reservation.productId, operation |-> "release",
                    quantityChange |-> reservation.quantity,
                    previousStock |-> currentStock, newStock |-> newStock,
                    orderId |-> orderId, reservationId |-> reservationId])]

(* SELECT * FROM reservations WHERE order_id = $1 AND status = 'active'
   (no ORDER BY: any matching row may come first) *)
findReservationByOrderId(orderId) ==
  {i \in 1..Len(reservations) :
     reservations[i].orderId = orderId /\ reservations[i].status = "active"}


----------------------------------------------------------------------------
(* Service Bus *)

(* sender.sendMessages may reject; the model allows MaxBusFail rejections. *)
canFail == failBudget > 0

put(bag, e) == bag (+) SetToBag({e})
take(bag, e) == bag (-) SetToBag({e})

OrderEvent(eventType, orderId, reservationId) ==
  [eventType |-> eventType, orderId |-> orderId, reservationId |-> reservationId]

(* The data of an inventory-events message; verified is the field of the
   VerificationComplete format and reason the failure reason a verification
   event may carry, both absent in every event the inventory service sends. *)
InventoryEvent(eventType, orderId, status, reservationId, recoveredFromCrash, remainingStock) ==
  [eventType |-> eventType, orderId |-> orderId, status |-> status,
   reservationId |-> reservationId, recoveredFromCrash |-> recoveredFromCrash,
   remainingStock |-> remainingStock, verified |-> "absent", reason |-> NoText]

(* The verification events the order consumer accepts from the topic, in the
   two formats: OrderVerified carries status, VerificationComplete carries
   verified; either may carry a reservation id and a reason. *)
VerificationEvents ==
  { [InventoryEvent("OrderVerified", 1, status, reservationId, recovered, Undefined)
       EXCEPT !.reason = reason] :
      status \in {"confirmed", "not_found"}, reservationId \in {Undefined, 1},
      recovered \in BOOLEAN, reason \in {NoText, "Insufficient stock"} }
  \cup
  { [InventoryEvent("VerificationComplete", 1, NoText, reservationId, FALSE, Undefined)
       EXCEPT !.reason = reason, !.verified = v] :
      v \in {"true", "false"}, reservationId \in {Undefined, 1},
      reason \in {NoText, "Insufficient stock"} }

VerifyOrderMessage(orderId, productId, quantity, idempotencyKey) ==
  [orderId |-> orderId, productId |-> productId, quantity |-> quantity,
   idempotencyKey |-> idempotencyKey]

----------------------------------------------------------------------------
(* Initial state *)

NoBody == [orderId |-> NullId, status |-> NoText, reservationId |-> NullId]

IdleRequest ==
  [pc |-> "idle", in |-> NoInput, order |-> NullId, timedOut |-> FALSE,
   reply |-> 0, cached |-> FALSE, body |-> NoBody]

NoResponse ==
  [success |-> FALSE, message |-> NoText, reservationId |-> NullId,
   remainingStock |-> 0, status |-> 0]

IdleRpc ==
  [st |-> "none", currentStock |-> Undefined, result |-> NoResult,
   response |-> NoResponse, error |-> NoText]

IdleVerify ==
  [pc |-> "idle", msg |-> VerifyOrderMessage(NullId, "", 0, NoKey),
   currentStock |-> Undefined]

IdleConsumer ==
  [pc |-> "idle", ev |-> InventoryEvent("", NullId, "", NullId, FALSE, Undefined)]

(* n counts the cancel requests received. *)
IdleCancel ==
  [pc |-> "idle", order |-> NullId, status |-> NoText, reservationId |-> NullId,
   reply |-> 0, n |-> 1]

Off(rec) == [rec EXCEPT !.pc = "off"]

InitQuiet ==
  /\ orders = <<>>
  /\ rpc = [r \in Requests |-> IdleRpc]
  /\ stock = [p \in ExistingProducts |-> InitStock]
  /\ reservations = <<>>
  /\ audit = <<>>
  /\ verifyQ = EmptyBag
  /\ vh = IdleVerify
  /\ invEvents = EmptyBag
  /\ invLog = EmptyBag
  /\ oc = IdleConsumer
  /\ ordEvents = EmptyBag
  /\ lateRelease = {}

(* The requests to come are fixed at the start: either one create request
   and the disturbances, or two create requests and none. *)
InitSingle ==
  /\ InitQuiet
  /\ \E in \in SingleInputs :
       req = [r \in Requests |->
                IF r = 1 THEN [IdleRequest EXCEPT !.in = in] ELSE Off(IdleRequest)]
  /\ cancel = IdleCancel
  /\ failBudget = MaxBusFail
  /\ dupBudget = MaxRedeliver

InitPair ==
  /\ InitQuiet
  /\ \E ins \in PairInputs :
       req = [r \in Requests |-> [IdleRequest EXCEPT !.in = ins[r]]]
  /\ cancel = Off(IdleCancel)
  /\ failBudget = 0
  /\ dupBudget = 0

Init == InitSingle \/ InitPair

(* The runs with repeated cancel requests: one create request, served or
   refused for its quantity; Service Bus accepts every send and delivers
   once. *)
CancelInputs ==
  { Input("c1", "p1", 1, "k"), Input("c1", "p1", InitStock + 1, NoKey) }

(* The order consumer on its own input: order 1 was answered 202 after its
   RPC found the inventory service unavailable, its VerifyOrder message was
   consumed, and the topic holds one verification event for it. *)
InitVerification ==
  LET in == Input("c1", "p1", 1, NoKey)
      row == [newOrderRow(in, uuidv4(1)) EXCEPT !.status = "pending_verification"]
  IN
  /\ orders = <<row>>
  /\ req = [r \in Requests |->
              IF r = 1
              THEN [IdleRequest EXCEPT !.in = in, !.pc = "done", !.order = 1,
                      !.timedOut = TRUE, !.reply = 202,
                      !.body = [orderId |-> 1, status |-> "pending_verification",
                                reservationId |-> NullId]]
              ELSE Off(IdleRequest)]
  /\ rpc = [r \in Requests |-> IF r = 1 THEN [IdleRpc EXCEPT !.st = "lost"] ELSE IdleRpc]
  /\ stock = [p \in ExistingProducts |-> InitStock]
  /\ reservations = <<>>
  /\ audit = <<>>
  /\ verifyQ = EmptyBag
  /\ vh = IdleVerify
  /\ \E ev \in VerificationEvents :
       /\ invEvents = SetToBag({ev})
       /\ invLog = SetToBag({ev})
  /\ oc = IdleConsumer
  /\ ordEvents = SetToBag({OrderEvent("OrderCreated", 1, NullId),
                           OrderEvent("OrderPendingVerification", 1, NullId)})
  /\ lateRelease = {}
  /\ cancel = IdleCancel
  /\ failBudget \in 0..MaxBusFail
  /\ dupBudget = 0

(* Events on the topic for an order id that has no row in the orders table
   (request 2 is never made, so no order 2 is ever inserted). *)
OrphanOrder == 2

OrphanEvents ==
  { InventoryEvent("StockReserved", OrphanOrder, NoText, 1, FALSE, InitStock - 1) }
  \cup
  { ev \in { [e EXCEPT !.orderId = OrphanOrder] : e \in VerificationEvents } :
      ev.reason = NoText }

(* The order consumer with an orphan event on the topic next to the
   verification event of order 1. *)
InitOrphans ==
  LET in == Input("c1", "p1", 1, NoKey)
      row == [newOrderRow(in, uuidv4(1)) EXCEPT !.status = "pending_verification"]
  IN
  /\ orders = <<row>>
  /\ req = [r \in Requests |->
              IF r = 1
              THEN [IdleRequest EXCEPT !.in = in, !.pc = "done", !.order = 1,
                      !.timedOut = TRUE, !.reply = 202,
                      !.body = [orderId |-> 1, status |-> "pending_verification",
                                reservationId |-> NullId]]
              ELSE Off(IdleRequest)]
  /\ rpc = [r \in Requests |-> IF r = 1 THEN [IdleRpc EXCEPT !.st = "lost"] ELSE IdleRpc]
  /\ stock = [p \in ExistingProducts |-> InitStock]
  /\ reservations = <<>>
  /\ audit = <<>>
  /\ verifyQ = EmptyBag
  /\ vh = IdleVerify
  /\ \E ev \in {e \in VerificationEvents : e.reason = NoText} :
       \E orphan \in OrphanEvents :
         /\ invEvents = SetToBag({ev, orphan})
         /\ invLog = SetToBag({ev, orphan})
  /\ oc = IdleConsumer
  /\ ordEvents = SetToBag({OrderEvent("OrderCreated", 1, NullId),
                           OrderEvent("OrderPendingVerification", 1, NullId)})
  /\ lateRelease = {}
  /\ cancel = IdleCancel
  /\ failBudget \in 0..MaxBusFail
  /\ dupBudget = 0

InitCancels ==
  /\ InitQuiet
  /\ \E in \in CancelInputs :
       req = [r \in Requests |->
                IF r = 1 THEN [IdleRequest EXCEPT !.in = in] ELSE Off(IdleRequest)]
  /\ cancel = IdleCancel
  /\ failBudget = 0
  /\ dupBudget = 0

----------------------------------------------------------------------------
(* POST /orders *)

bodyOf(ords, o) ==
  IF o \in DOMAIN ords
  THEN [orderId |-> o, status |-> ords[o].status,
        reservationId |-> ords[o].reservationId]
  ELSE NoBody

(* res.status(code).json(...) : the handler is over *)
replied(r, code, ords, o) ==
  [req[r] EXCEPT !.pc = "done", !.reply = code, !.body = bodyOf(ords, o)]

(* A validation without the test of the quantity's sign. *)
validationError_nosign(in) ==
  IF in.customerId = "" \/ in.productId = "" \/ in.quantity = 0
  THEN "Missing required fields: customerId, productId, quantity"
  ELSE NoText

(* if (!customerId || !productId || !quantity) ...; if (quantity <= 0) ... :
   the error of the 400 reply, NoText for a valid body.  A field left out is
   "" (or 0 for the quantity), which the first test treats like a field that
   was not sent. *)
validationError(in) ==
  IF in.customerId = "" \/ in.productId = "" \/ in.quantity = 0
  THEN "Missing required fields: customerId, productId, quantity"
  ELSE IF in.quantity <= 0
  THEN "Quantity must be positive"
  ELSE NoText

(* Validation of the request body; then, with a client key,
   getOrderByIdempotencyKey: a hit replies 200 with the stored order and
   cached: true.  Without a client key createOrder's own SELECT is by a fresh
   uuid and finds nothing, so the request goes on to the INSERT. *)
StartCreate(r) ==
  /\ req[r].pc = "idle"
  /\ LET in == req[r].in
         existing == getOrderByIdempotencyKey(in.key)
     IN
     IF validationError(in) # NoText
     THEN req' = [req EXCEPT ![r] = [@ EXCEPT !.pc = "done", !.reply = 400]]
     ELSE IF in.key # NoKey /\ existing # {}
     THEN \E o \in existing :
            req' = [req EXCEPT ![r] = [replied(r, 200, orders, o) EXCEPT !.cached = TRUE]]
     ELSE req' = [req EXCEPT ![r].pc = IF in.key # NoKey THEN "select" ELSE "insert"]
  /\ UNCHANGED <<orders, rpc, stock, reservations, audit, verifyQ, vh, invEvents,
                 invLog, oc, ordEvents, cancel, lateRelease, failBudget, dupBudget>>

(* A route that logs a rejected OrderCreated publish and goes on to the RPC. *)
publishCreatedAndReserve_swallows(r, o, ords) ==
  /\ orders' = ords
  /\ req' = [req EXCEPT ![r].order = o, ![r].pc = "rpc"]
  /\ rpc' = [rpc EXCEPT ![r].st = "sent"]
  /\ \/ /\ ordEvents' = put(ordEvents, OrderEvent("OrderCreated", o, NullId))
        /\ failBudget' = failBudget
     \/ /\ canFail
        /\ failBudget' = failBudget - 1
        /\ ordEvents' = ordEvents

(* After createOrder returned order o (table ords): publish OrderCreated and
   call inventoryClient.reserveStock; a rejected publish is caught by the
   outer catch, which replies 500. *)
publishCreatedAndReserve(r, o, ords) ==
  /\ orders' = ords
  /\ \/ /\ ordEvents' = put(ordEvents, OrderEvent("OrderCreated", o, NullId))
        /\ req' = [req EXCEPT ![r].order = o, ![r].pc = "rpc"]
        /\ rpc' = [rpc EXCEPT ![r].st = "sent"]
        /\ failBudget' = failBudget
     \/ /\ canFail
        /\ failBudget' = failBudget - 1
        /\ ordEvents' = ordEvents
        /\ req' = [req EXCEPT ![r] = [replied(r, 500, ords, NullId) EXCEPT !.order = o]]
        /\ rpc' = rpc

(* createOrder, the SELECT by idempotency key: a row found is returned as the
   created order and the handler goes on with it. *)
CreateOrderSelect(r) ==
  /\ req[r].pc = "select"
  /\ LET existing == getOrderByIdempotencyKey(requestIdempotencyKey(r, req[r].in)) IN
     IF existing # {}
     THEN \E o \in existing : publishCreatedAndReserve(r, o, orders)
     ELSE /\ req' = [req EXCEPT ![r].pc = "insert"]
          /\ UNCHANGED <<orders, rpc, ordEvents, failBudget>>
  /\ UNCHANGED <<stock, reservations, audit, verifyQ, vh, invEvents, invLog, oc,
                 cancel, lateRelease, dupBudget>>

(* createOrder, the INSERT: a unique violation throws (reply 500). *)
CreateOrderInsert(r) ==
  /\ req[r].pc = "insert"
  /\ LET key == requestIdempotencyKey(r, req[r].in) IN
     IF ordersKeyUnique(key)
     THEN publishCreatedAndReserve(r, r, orders @@ (r :> newOrderRow(req[r].in, key)))
     ELSE /\ req' = [req EXCEPT ![r] = replied(r, 500, orders, NullId)]
          /\ UNCHANGED <<orders, rpc, ordEvents, failBudget>>
  /\ UNCHANGED <<stock, reservations, audit, verifyQ, vh, invEvents, invLog, oc,
                 cancel, lateRelease, dupBudget>>


(* updateOrderStatus(...), then publishOrderEvent(ev), then the reply `code`
   with the order read back; a rejected publish leaves the update in place
   and replies 500 from the outer catch. *)
updatePublishReply(r, ords, ev, code) ==
  /\ orders' = ords
  /\ \/ /\ ordEvents' = put(ordEvents, ev)
        /\ req' = [req EXCEPT ![r] = replied(r, code, ords, req[r].order)]
        /\ failBudget' = failBudget
     \/ /\ canFail
        /\ failBudget' = failBudget - 1
        /\ ordEvents' = ordEvents
        /\ req' = [req EXCEPT ![r] = replied(r, 500, ords, NullId)]

(* The callback of inventoryClient.reserveStock with a response or with an
   error that is neither DEADLINE_EXCEEDED nor UNAVAILABLE. *)
ReserveReply(r) ==
  /\ req[r].pc = "rpc"
  /\ rpc[r].st = "done"
  /\ LET o == req[r].order
         reservationResult == rpc[r].response
     IN
     IF rpc[r].error # NoText
     THEN /\ req' = [req EXCEPT ![r] = replied(r, 500, orders, NullId)]
          /\ UNCHANGED <<orders, ordEvents, failBudget>>
     ELSE IF reservationResult.success
     THEN updatePublishReply(r,
            updateOrderStatus(orders, o, "confirmed", reservationResult.reservationId,
                              NoText),
            OrderEvent("OrderConfirmed", o, reservationResult.reservationId), 201)
     ELSE updatePublishReply(r,
            updateOrderStatus(orders, o, "failed", Undefined, reservationResult.message),
            OrderEvent("OrderFailed", o, NullId), 400)
  /\ UNCHANGED <<rpc, stock, reservations, audit, verifyQ, vh, invEvents, invLog, oc,
                 cancel, lateRelease, dupBudget>>

(* A timeout path that enqueues VerifyOrder and replies without having
   written pending_verification. *)
verificationPath_unmarked(r) ==
  LET o == req[r].order
      in == req[r].in
      msg == VerifyOrderMessage(o, in.productId, in.quantity,
                                requestIdempotencyKey(r, in))
  IN
  /\ orders' = orders
  /\ verifyQ' = put(verifyQ, msg)
  /\ ordEvents' = put(ordEvents, OrderEvent("OrderPendingVerification", o, NullId))
  /\ req' = [req EXCEPT ![r] = [replied(r, 202, orders, o) EXCEPT !.timedOut = TRUE]]
  /\ failBudget' = failBudget

(* if (timedOut): updateOrderStatus(pending_verification), sendVerifyOrderMessage,
   publishOrderEvent(OrderPendingVerification), reply 202.  Either send may
   reject, which the outer catch answers with 500. *)
verificationPath(r) ==
  LET o == req[r].order
      in == req[r].in
      timedOut(request) == [request EXCEPT !.timedOut = TRUE]
      ords == updateOrderStatus(orders, o, "pending_verification", Undefined, NoText)
      msg == VerifyOrderMessage(o, in.productId, in.quantity,
                                requestIdempotencyKey(r, in))
  IN
  /\ orders' = ords
  /\ \/ /\ verifyQ' = put(verifyQ, msg)
        /\ ordEvents' = put(ordEvents, OrderEvent("OrderPendingVerification", o, NullId))
        /\ req' = [req EXCEPT ![r] = timedOut(replied(r, 202, ords, o))]
        /\ failBudget' = failBudget
     \/ /\ canFail
        /\ failBudget' = failBudget - 1
        /\ UNCHANGED <<verifyQ, ordEvents>>
        /\ req' = [req EXCEPT ![r] = timedOut(replied(r, 500, ords, NullId))]
     \/ /\ canFail
        /\ failBudget' = failBudget - 1
        /\ verifyQ' = put(verifyQ, msg)
        /\ ordEvents' = ordEvents
        /\ req' = [req EXCEPT ![r] = timedOut(replied(r, 500, ords, NullId))]

(* A coordinator that sends the RPC again when the deadline has passed. *)
ReserveTimeout_resends(r) ==
  /\ req[r].pc = "rpc"
  /\ rpc[r].st = "done"
  /\ rpc' = [rpc EXCEPT ![r] = [IdleRpc EXCEPT !.st = "sent"]]
  /\ UNCHANGED <<orders, req, verifyQ, ordEvents, failBudget, stock, reservations,
                 audit, vh, invEvents, invLog, oc, cancel, lateRelease, dupBudget>>

(* The 2 s deadline passes before the response arrives (DEADLINE_EXCEEDED ->
   'TIMEOUT'); the server handler keeps running. *)
ReserveTimeout(r) ==
  /\ req[r].pc = "rpc"
  /\ rpc[r].st \in {"sent", "looked", "locked", "published", "done"}
  /\ verificationPath(r)
  /\ UNCHANGED <<rpc, stock, reservations, audit, vh, invEvents, invLog, oc, cancel,
                 lateRelease, dupBudget>>

(* The call never reaches the server (UNAVAILABLE). *)
ReserveUnavailable(r) ==
  /\ req[r].pc = "rpc"
  /\ rpc[r].st = "sent"
  /\ rpc' = [rpc EXCEPT ![r].st = "lost"]
  /\ verificationPath(r)
  /\ UNCHANGED <<stock, reservations, audit, vh, invEvents, invLog, oc, cancel,
                 lateRelease, dupBudget>>

----------------------------------------------------------------------------
(* Inventory service: the ReserveStock gRPC handler *)

statusMap(status) ==
  CASE status = "confirmed" -> 1
    [] status = "insufficient_stock" -> 2
    [] status = "product_not_found" -> 3
    [] status = "already_exists" -> 4
    [] OTHER -> 0

(* A response that leaves the reservation id out. *)
grpcResponse_noid(result) ==
  [success |-> result.success, message |-> result.message,
   reservationId |-> NullId,
   remainingStock |-> IF result.remainingStock = Undefined THEN 0
                      ELSE result.remainingStock,
   status |-> statusMap(result.status)]

(* A response that leaves the message out. *)
grpcResponse_nomessage(result) ==
  [success |-> result.success, message |-> NoText,
   reservationId |-> result.reservationId,
   remainingStock |-> IF result.remainingStock = Undefined THEN 0
                      ELSE result.remainingStock,
   status |-> statusMap(result.status)]

(* callback(null, {success, message, reservationId || '', remainingStock || 0,
   status: statusMap[result.status] || 0}) *)
grpcResponse(result) ==
  [success |-> result.success, message |-> result.message,
   reservationId |-> result.reservationId,
   remainingStock |-> IF result.remainingStock = Undefined THEN 0
                      ELSE result.remainingStock,
   status |-> statusMap(result.status)]

rpcOrder(r) == req[r].order
rpcKey(r) == requestIdempotencyKey(r, req[r].in)

respond(r, result) ==
  [rpc EXCEPT ![r] = [@ EXCEPT !.st = "done", !.result = result,
                               !.response = grpcResponse(result)]]

(* The catch block of the handler: callback({code: INTERNAL, message}) *)
respondError(r, result, message) ==
  [rpc EXCEPT ![r] = [@ EXCEPT !.st = "done", !.result = result, !.error = message]]

(* publishInventoryEvent for each event of evs in turn (the events differ):
   a rejected send is caught and logged, that event is lost and the caller
   goes on. *)
publishInventoryEvents(evs) ==
  \E lost \in SUBSET (1..Len(evs)) :
    /\ Cardinality(lost) <= failBudget
    /\ failBudget' = failBudget - Cardinality(lost)
    /\ LET sent == SetToBag({evs[i] : i \in (1..Len(evs)) \ lost}) IN
       /\ invEvents' = invEvents (+) sent
       /\ invLog' = invLog (+) sent

publishInventoryEvent(ev) == publishInventoryEvents(<<ev>>)

(* stockRepository.reserveStock up to the idempotency-key lookup.  A row
   found returns already_exists; the handler then may hit the simulated crash
   (result.success holds) and publishes nothing. *)
ReserveStockLookup(r) ==
  /\ rpc[r].st = "sent"
  /\ LET existing == reservationsByKey(rpcKey(r)) IN
     IF existing # {}
     THEN \E i \in existing :
            \/ rpc' = respond(r, alreadyExists(i))
            \/ rpc' = respondError(r, alreadyExists(i), "SCHRODINGER_CRASH")
     ELSE rpc' = [rpc EXCEPT ![r].st = "looked"]
  /\ UNCHANGED <<orders, req, stock, reservations, audit, verifyQ, vh, invEvents,
                 invLog, oc, ordEvents, cancel, lateRelease, failBudget, dupBudget>>

(* stockRepository.reserveStock: SELECT ... FOR UPDATE on the product row. *)
ReserveStockLock(r) ==
  /\ rpc[r].st = "looked"
  /\ rowLockFree(req[r].in.productId)
  /\ rpc' = [rpc EXCEPT ![r].st = "locked",
                        ![r].currentStock = currentStockOf(req[r].in.productId)]
  /\ UNCHANGED <<orders, req, stock, reservations, audit, verifyQ, vh, invEvents,
                 invLog, oc, ordEvents, cancel, lateRelease, failBudget, dupBudget>>

(* The rest of the transaction of stockRepository.reserveStock, then the
   handler up to the StockReserved publish: a thrown error answers INTERNAL,
   a success may hit simulateCrash() (thrown inside the try, so it answers
   INTERNAL too), a domain failure is answered at once. *)
ReserveStockCommit(r) ==
  /\ rpc[r].st = "locked"
  /\ LET out == reserveTx(rpcOrder(r), req[r].in.productId, req[r].in.quantity,
                          rpcKey(r), rpc[r].currentStock)
     IN
     /\ stock' = out.stock
     /\ reservations' = out.reservations
     /\ audit' = out.audit
     /\ IF out.threw
        THEN /\ rpc' = respondError(r, out.result, "DB_ERROR")
             /\ UNCHANGED <<invEvents, invLog, failBudget>>
        ELSE IF ~out.result.success
        THEN /\ rpc' = respond(r, out.result)
             /\ UNCHANGED <<invEvents, invLog, failBudget>>
        ELSE \/ /\ rpc' = respondError(r, out.result, "SCHRODINGER_CRASH")
                /\ UNCHANGED <<invEvents, invLog, failBudget>>
             \/ /\ rpc' = [rpc EXCEPT ![r] = [@ EXCEPT !.st = "published",
                                                       !.result = out.result]]
                /\ publishInventoryEvent(
                     InventoryEvent("StockReserved", rpcOrder(r), NoText,
                                    out.result.reservationId, FALSE,
                                    out.result.remainingStock))
  /\ UNCHANGED <<orders, req, verifyQ, vh, oc, ordEvents, cancel, lateRelease, dupBudget>>

(* getProduct after the publish, the LowStockAlert test on the stock read
   now, and the response. *)
ReserveStockRespond(r) ==
  /\ rpc[r].st = "published"
  /\ rpc' = respond(r, rpc[r].result)
  /\ LET productId == req[r].in.productId IN
     IF stock[productId] <= lowStockThreshold
     THEN invLog' = put(invLog, InventoryEvent("LowStockAlert", NullId, productId,
                                               NullId, FALSE, stock[productId]))
     ELSE invLog' = invLog
  /\ UNCHANGED <<orders, req, stock, reservations, audit, verifyQ, vh, invEvents, oc,
                 ordEvents, cancel, lateRelease, failBudget, dupBudget>>


----------------------------------------------------------------------------
(* Inventory service: the verify-orders consumer (one message at a time) *)

(* An OrderVerified event that does not carry the reservation id. *)
OrderVerified_bare(msg, status, recoveredFromCrash, reservationId) ==
  InventoryEvent("OrderVerified", msg.orderId, status, Undefined,
                 recoveredFromCrash, Undefined)

(* An OrderVerified event that never reports a recovery. *)
OrderVerified_notrecovered(msg, status, recoveredFromCrash, reservationId) ==
  InventoryEvent("OrderVerified", msg.orderId, status, reservationId, FALSE, Undefined)

OrderVerified(msg, status, recoveredFromCrash, reservationId) ==
  InventoryEvent("OrderVerified", msg.orderId, status, reservationId,
                 recoveredFromCrash, Undefined)

(* The events handleVerifyOrderMessage publishes after reserveStock returned. *)
verifyOutcomeEvents(msg, result) ==
  IF result.success
  THEN << OrderVerified(msg, "confirmed", FALSE, result.reservationId),
          InventoryEvent("StockReserved", msg.orderId, NoText, result.reservationId,
                         FALSE, result.remainingStock) >>
  ELSE << OrderVerified(msg, "not_found", FALSE, Undefined) >>

(* Receive a message and run findReservationByOrderId.  An active
   reservation: publish OrderVerified{confirmed, recoveredFromCrash: true} and
   complete the message. *)
VerifyFind ==
  /\ vh.pc = "idle"
  /\ \E msg \in BagToSet(verifyQ) :
       /\ verifyQ' = take(verifyQ, msg)
       /\ LET existing == findReservationByOrderId(msg.orderId) IN
          IF existing # {}
          THEN /\ \E i \in existing :
                    publishInventoryEvent(
                      OrderVerified(msg, "confirmed", TRUE, reservations[i].id))
               /\ vh' = vh
          ELSE /\ vh' = [IdleVerify EXCEPT !.pc = "lookup", !.msg = msg]
               /\ UNCHANGED <<invEvents, invLog, failBudget>>
  /\ UNCHANGED <<orders, req, rpc, stock, reservations, audit, oc, ordEvents, cancel,
                 lateRelease, dupBudget>>

(* reserveStock(orderId, productId, quantity, `verify-${idempotencyKey}`) up
   to its key lookup. *)
VerifyLookup ==
  /\ vh.pc = "lookup"
  /\ LET existing == reservationsByKey(verifyKey(vh.msg.idempotencyKey)) IN
     IF existing # {}
     THEN /\ \E i \in existing :
               publishInventoryEvents(verifyOutcomeEvents(vh.msg, alreadyExists(i)))
          /\ vh' = IdleVerify
     ELSE /\ vh' = [vh EXCEPT !.pc = "tx"]
          /\ UNCHANGED <<invEvents, invLog, failBudget>>
  /\ UNCHANGED <<orders, req, rpc, stock, reservations, audit, verifyQ, oc, ordEvents,
                 cancel, lateRelease, dupBudget>>

(* That reserveStock: SELECT ... FOR UPDATE on the product row. *)
VerifyLock ==
  /\ vh.pc = "tx"
  /\ rowLockFree(vh.msg.productId)
  /\ vh' = [vh EXCEPT !.pc = "locked",
                      !.currentStock = currentStockOf(vh.msg.productId)]
  /\ UNCHANGED <<orders, req, rpc, stock, reservations, audit, verifyQ, invEvents,
                 invLog, oc, ordEvents, cancel, lateRelease, failBudget, dupBudget>>

(* The rest of that transaction and the publishes after it.  A thrown error
   is rethrown by the handler: the message is abandoned and redelivered. *)
VerifyCommit ==
  /\ vh.pc = "locked"
  /\ LET msg == vh.msg
         out == reserveTx(msg.orderId, msg.productId, msg.quantity,
                          verifyKey(msg.idempotencyKey), vh.currentStock)
     IN
     /\ stock' = out.stock
     /\ reservations' = out.reservations
     /\ audit' = out.audit
     /\ IF out.threw
        THEN /\ verifyQ' = put(verifyQ, msg)
             /\ UNCHANGED <<invEvents, invLog, failBudget>>
        ELSE /\ verifyQ' = verifyQ
             /\ publishInventoryEvents(verifyOutcomeEvents(msg, out.result))
  /\ vh' = IdleVerify
  /\ UNCHANGED <<orders, req, rpc, oc, ordEvents, cancel, lateRelease, dupBudget>>

----------------------------------------------------------------------------
(* Order service: the inventory-events consumer (one message at a time) *)

(* handleStockReserved: the UPDATE has no status condition; with a row
   updated OrderConfirmed is published, and a rejected publish rethrows, so
   the message is abandoned and redelivered. *)
HandleStockReserved ==
  /\ oc.pc = "idle"
  /\ \E ev \in BagToSet(invEvents) :
       /\ ev.eventType = "StockReserved"
       /\ orders' = updateOrderStatus(orders, ev.orderId, "confirmed",
                                      ev.reservationId, NoText)
       /\ IF ev.orderId \in DOMAIN orders
          THEN \/ /\ ordEvents' = put(ordEvents,
                        OrderEvent("OrderConfirmed", ev.orderId, ev.reservationId))
                  /\ invEvents' = take(invEvents, ev)
                  /\ failBudget' = failBudget
               \/ /\ canFail
                  /\ failBudget' = failBudget - 1
                  /\ UNCHANGED <<ordEvents, invEvents>>
          ELSE /\ invEvents' = take(invEvents, ev)
               /\ UNCHANGED <<ordEvents, failBudget>>
  /\ UNCHANGED <<req, rpc, stock, reservations, audit, verifyQ, vh, invLog, oc,
                 cancel, lateRelease, dupBudget>>

(* A test that looks at the status only. *)
verified_statusonly(ev) == ev.status = "confirmed"

(* const verified = event.data.verified ?? (status === 'confirmed') *)
verified(ev) ==
  IF ev.verified # "absent" THEN ev.verified = "true" ELSE ev.status = "confirmed"

(* A test of the status that takes every event to have an order. *)
skipsVerification_anyorder(ev) ==
  ev.orderId \in DOMAIN orders /\ orders[ev.orderId].status # "pending_verification"

(* if (!order || order.status !== 'pending_verification') return *)
skipsVerification(ev) ==
  ev.orderId \notin DOMAIN orders \/ orders[ev.orderId].status # "pending_verification"

(* handleVerificationComplete up to getOrder and the status test. *)
HandleVerificationRead ==
  /\ oc.pc = "idle"
  /\ \E ev \in BagToSet(invEvents) :
       /\ ev.eventType \in {"OrderVerified", "VerificationComplete"}
       /\ invEvents' = take(invEvents, ev)
       /\ IF skipsVerification(ev)
          THEN oc' = oc
          ELSE oc' = [pc |-> "update", ev |-> ev]
  /\ UNCHANGED <<orders, req, rpc, stock, reservations, audit, verifyQ, vh, invLog,
                 ordEvents, cancel, lateRelease, failBudget, dupBudget>>

(* reason || 'Verification failed - no reservation found' *)
failureReason(ev) ==
  IF ev.reason # NoText THEN ev.reason
  ELSE "Verification failed - no reservation found"

(* handleVerificationComplete from the update on. *)
HandleVerificationUpdate ==
  /\ oc.pc = "update"
  /\ LET ev == oc.ev
         ords == IF verified(ev)
                 THEN updateOrderStatus(orders, ev.orderId, "confirmed",
                                        ev.reservationId, NoText)
                 ELSE updateOrderStatus(orders, ev.orderId, "failed", Undefined,
                                        failureReason(ev))
         out == IF verified(ev)
                THEN OrderEvent("OrderConfirmed", ev.orderId, ev.reservationId)
                ELSE OrderEvent("OrderFailed", ev.orderId, NullId)
     IN
     /\ orders' = ords
     /\ \/ /\ ordEvents' = put(ordEvents, out)
           /\ UNCHANGED <<invEvents, failBudget>>
        \/ /\ canFail
           /\ failBudget' = failBudget - 1
           /\ invEvents' = put(invEvents, ev)
           /\ ordEvents' = ordEvents
  /\ oc' = IdleConsumer
  /\ UNCHANGED <<req, rpc, stock, reservations, audit, verifyQ, vh, invLog, cancel,
                 lateRelease, dupBudget>>

(* At-least-once delivery: the bus may deliver a message again. *)
Redeliver ==
  /\ dupBudget > 0
  /\ dupBudget' = dupBudget - 1
  /\ \/ /\ \E msg \in BagToSet(verifyQ) : verifyQ' = put(verifyQ, msg)
        /\ invEvents' = invEvents
     \/ /\ \E ev \in BagToSet(invEvents) : invEvents' = put(invEvents, ev)
        /\ verifyQ' = verifyQ
  /\ UNCHANGED <<orders, req, rpc, stock, reservations, audit, vh, invLog, oc,
                 ordEvents, cancel, lateRelease, failBudget>>


----------------------------------------------------------------------------
(* POST /orders/:id/cancel *)

(* A route that lets the cancel of a failed order through. *)
cancelRefusal_failedpasses(o) ==
  IF o \notin DOMAIN orders THEN 404
  ELSE IF orders[o].status = "cancelled" THEN 400
  ELSE 0

(* The early returns of the route on the order getOrder returned: 404 for no
   order, 400 for a cancelled one, 400 for a failed one; 0 when it goes on. *)
cancelRefusal(o) ==
  IF o \notin DOMAIN orders THEN 404
  ELSE IF orders[o].status = "cancelled" THEN 400
  ELSE IF orders[o].status = "failed" THEN 400
  ELSE 0

(* getOrder and the three early returns. *)
CancelRead ==
  /\ cancel.pc = "idle"
  /\ \E o \in Requests :
       IF cancelRefusal(o) # 0
       THEN cancel' = [cancel EXCEPT !.pc = "done", !.order = o,
                                     !.reply = cancelRefusal(o)]
       ELSE cancel' = [cancel EXCEPT !.pc = "release", !.order = o,
                                     !.status = orders[o].status,
                                     !.reservationId = orders[o].reservationId]
  /\ UNCHANGED <<orders, req, rpc, stock, reservations, audit, verifyQ, vh, invEvents,
                 invLog, oc, ordEvents, lateRelease, failBudget, dupBudget>>

StockReleased(orderId) ==
  InventoryEvent("StockReleased", orderId, NoText, NullId, FALSE, Undefined)

(* The ReleaseStock handler: the transaction, then StockReleased on success. *)
releaseStock(orderId, reservationId) ==
  LET out == releaseTx(orderId, reservationId) IN
  /\ rowLockFree(out.productId)
  /\ stock' = out.stock
  /\ reservations' = out.reservations
  /\ audit' = out.audit
  /\ invLog' = IF out.success THEN put(invLog, StockReleased(orderId)) ELSE invLog

(* A cancel handler that gives up when the release did not go through: the
   inner catch rethrows, and the outer catch replies 500. *)
CancelFinish_releaseblocks ==
  /\ cancel.pc = "release"
  /\ \/ /\ IF cancel.status = "confirmed" /\ cancel.reservationId # NullId
           THEN /\ releaseStock(cancel.order, cancel.reservationId)
                /\ lateRelease' = lateRelease
           ELSE UNCHANGED <<stock, reservations, audit, invLog, lateRelease>>
        /\ orders' = updateOrderStatus(orders, cancel.order, "cancelled", Undefined, NoText)
        /\ ordEvents' = put(ordEvents, OrderEvent("OrderCancelled", cancel.order, NullId))
        /\ cancel' = [cancel EXCEPT !.pc = "done", !.reply = 200]
        /\ failBudget' = failBudget
     \/ /\ cancel.status = "confirmed" /\ cancel.reservationId # NullId
        /\ cancel' = [cancel EXCEPT !.pc = "done", !.reply = 500]
        /\ UNCHANGED <<orders, ordEvents, stock, reservations, audit, invLog,
                       lateRelease, failBudget>>
  /\ UNCHANGED <<req, rpc, verifyQ, vh, invEvents, oc, dupBudget>>

(* The rest of the cancel handler, from the order read by CancelRead: for a
   confirmed order with a reservation id, inventoryClient.releaseStock, whose
   failure is caught and ignored (the call ran, never reached the server, or
   timed out and runs later); then updateOrderStatus(cancelled), the
   OrderCancelled publish and the reply. *)
CancelFinish ==
  /\ cancel.pc = "release"
  /\ IF cancel.status = "confirmed" /\ cancel.reservationId # NullId
     THEN \/ /\ releaseStock(cancel.order, cancel.reservationId)
             /\ lateRelease' = lateRelease
          \/ UNCHANGED <<stock, reservations, audit, invLog, lateRelease>>
          \/ /\ lateRelease' = lateRelease \cup
                  {[orderId |-> cancel.order, reservationId |-> cancel.reservationId]}
             /\ UNCHANGED <<stock, reservations, audit, invLog>>
     ELSE UNCHANGED <<stock, reservations, audit, invLog, lateRelease>>
  /\ orders' = updateOrderStatus(orders, cancel.order, "cancelled", Undefined, NoText)
  /\ \/ /\ ordEvents' = put(ordEvents, OrderEvent("OrderCancelled", cancel.order, NullId))
        /\ cancel' = [cancel EXCEPT !.pc = "done", !.reply = 200]
        /\ failBudget' = failBudget
     \/ /\ canFail
        /\ failBudget' = failBudget - 1
        /\ ordEvents' = ordEvents
        /\ cancel' = [cancel EXCEPT !.pc = "done", !.reply = 500]
  /\ UNCHANGED <<req, rpc, verifyQ, vh, invEvents, oc, dupBudget>>

(* The route receives another cancel request after it answered one. *)
CancelAgain ==
  /\ cancel.pc = "done"
  /\ cancel.n < MaxCancels
  /\ cancel' = [IdleCancel EXCEPT !.n = cancel.n + 1]
  /\ UNCHANGED <<orders, req, rpc, stock, reservations, audit, verifyQ, vh, invEvents,
                 invLog, oc, ordEvents, lateRelease, failBudget, dupBudget>>

(* A ReleaseStock request of any client reaches the handler: the order id
   and reservation id of call.request are whatever the client sent. *)
ReleaseStockCall ==
  /\ lateRelease = {}
  /\ \E orderId \in Requests : \E reservationId \in 1..MaxReservationId :
       lateRelease' = {[orderId |-> orderId, reservationId |-> reservationId]}
  /\ UNCHANGED <<orders, req, rpc, stock, reservations, audit, verifyQ, vh, invEvents,
                 invLog, oc, ordEvents, cancel, failBudget, dupBudget>>

(* The server runs a ReleaseStock call that outlived its client's deadline,
   or one a client made itself. *)
LateRelease ==
  /\ \E rel \in lateRelease :
       /\ releaseStock(rel.orderId, rel.reservationId)
       /\ lateRelease' = lateRelease \ {rel}
  /\ UNCHANGED <<orders, req, rpc, verifyQ, vh, invEvents, oc, ordEvents, cancel,
                 failBudget, dupBudget>>

----------------------------------------------------------------------------
(* The system *)

Next ==
  \/ \E r \in Requests : StartCreate(r)
  \/ \E r \in Requests : CreateOrderSelect(r)
  \/ \E r \in Requests : CreateOrderInsert(r)
  \/ \E r \in Requests : ReserveReply(r)
  \/ \E r \in Requests : ReserveTimeout(r)
  \/ \E r \in Requests : ReserveUnavailable(r)
  \/ \E r \in Requests : ReserveStockLookup(r)
  \/ \E r \in Requests : ReserveStockLock(r)
  \/ \E r \in Requests : ReserveStockCommit(r)
  \/ \E r \in Requests : ReserveStockRespond(r)
  \/ VerifyFind
  \/ VerifyLookup
  \/ VerifyLock
  \/ VerifyCommit
  \/ HandleStockReserved
  \/ HandleVerificationRead
  \/ HandleVerificationUpdate
  \/ Redeliver
  \/ CancelRead
  \/ CancelFinish
  \/ LateRelease

Spec == Init /\ [][Next]_vars

(* The same system with a client that cancels again and clients that call
   ReleaseStock themselves; nothing is redelivered. *)
NextCancels ==
  \/ \E r \in Requests : StartCreate(r)
  \/ \E r \in Requests : CreateOrderSelect(r)
  \/ \E r \in Requests : CreateOrderInsert(r)
  \/ \E r \in Requests : ReserveReply(r)
  \/ \E r \in Requests : ReserveTimeout(r)
  \/ \E r \in Requests : ReserveUnavailable(r)
  \/ \E r \in Requests : ReserveStockLookup(r)
  \/ \E r \in Requests : ReserveStockLock(r)
  \/ \E r \in Requests : ReserveStockCommit(r)
  \/ \E r \in Requests : ReserveStockRespond(r)
  \/ VerifyFind
  \/ VerifyLookup
  \/ VerifyLock
  \/ VerifyCommit
  \/ HandleStockReserved
  \/ HandleVerificationRead
  \/ HandleVerificationUpdate
  \/ CancelRead
  \/ CancelFinish
  \/ CancelAgain
  \/ ReleaseStockCall
  \/ LateRelease

SpecCancels == InitCancels /\ [][NextCancels]_vars

(* The order consumer handling one verification event while the order may be
   cancelled. *)
NextVerification ==
  \/ HandleVerificationRead
  \/ HandleVerificationUpdate
  \/ CancelRead
  \/ CancelFinish

SpecVerification == InitVerification /\ [][NextVerification]_vars

(* The order consumer on a topic that also holds an event of an unknown
   order. *)
NextOrphans ==
  \/ HandleStockReserved
  \/ HandleVerificationRead
  \/ HandleVerificationUpdate
  \/ CancelRead
  \/ CancelFinish

SpecOrphans == InitOrphans /\ [][NextOrphans]_vars


----------------------------------------------------------------------------
(* Properties *)

activeReservations(o) ==
  {i \in 1..Len(reservations) :
     reservations[i].orderId = o /\ reservations[i].status = "active"}

reserveAudits(o) ==
  {i \in 1..Len(audit) : audit[i].orderId = o /\ audit[i].operation = "reserve"}

(* Nothing is in flight: every request has replied, every RPC has run or was
   lost, both queues are empty and both consumers are idle. *)
Quiescent ==
  /\ \A r \in Requests : req[r].pc \in {"off", "done"}
  /\ \A r \in Requests : rpc[r].st \in {"none", "done", "lost"}
  /\ verifyQ = EmptyBag /\ vh.pc = "idle"
  /\ invEvents = EmptyBag /\ oc.pc = "idle"
  /\ cancel.pc \in {"off", "idle", "done"}
  /\ lateRelease = {}

(* C1: in every reachable state every order has at most one active
   reservation and at most one stock deduction (reserve audit row), under any
   interleaving of the ReserveStock RPC (also one that commits after the
   deadline), VerifyOrder handling and redelivery. *)
C1_OneReservationPerOrder ==
  \A o \in Requests :
    /\ Cardinality(activeReservations(o)) <= 1
    /\ Cardinality(reserveAudits(o)) <= 1

(* C2: once an order's status is confirmed, failed or cancelled, no step
   changes it. *)
C2_TerminalAbsorbing ==
  [][\A o \in DOMAIN orders :
       orders[o].status \in Terminal => orders'[o].status = orders[o].status]_vars

(* C3: every order the coordinator put into pending_verification reaches a
   terminal status; stated on the runs that have come to rest: when nothing
   is in flight any more, no order is still in pending_verification. *)
C3_VerificationTerminates ==
  Quiescent => \A o \in DOMAIN orders : orders[o].status # "pending_verification"

(* Service Bus sends rejected so far: the single-request runs start with a
   budget of MaxBusFail, the two-request runs (no cancel) with none. *)
sendsRejected == IF cancel.pc = "off" THEN 0 ELSE MaxBusFail - failBudget

(* C4: when reserveStock committed a reservation and the handler then failed
   before replying (the Schroedinger crash), and no bus send was rejected, the
   create request is answered 202 with the order in pending_verification,
   and once nothing is in flight the order is confirmed with its stock
   deducted exactly once. *)
C4_CrashRecovered ==
  \A r \in Requests :
    (rpc[r].error = "SCHRODINGER_CRASH" /\ rpc[r].result.status = "confirmed"
       /\ req[r].pc = "done" /\ sendsRejected = 0)
    => /\ req[r].reply = 202
       /\ req[r].body.status = "pending_verification"
       /\ Quiescent => /\ orders[req[r].order].status = "confirmed"
                       /\ Cardinality(reserveAudits(req[r].order)) = 1

(* C5: every confirmed order has exactly one reservation whose order_id is
   the order's id and whose id is the order's stored reservation_id. *)
C5_ConfirmedHasItsReservation ==
  \A o \in DOMAIN orders :
    orders[o].status = "confirmed"
    => Cardinality({i \in 1..Len(reservations) :
                      /\ reservations[i].orderId = o
                      /\ reservations[i].id = orders[o].reservationId}) = 1

(* C6: an order with status confirmed has a non-null reservation_id,
   whichever path confirmed it. *)
C6_ConfirmedHasReservationId ==
  \A o \in DOMAIN orders :
    orders[o].status = "confirmed" => orders[o].reservationId # NullId

(* An order confirmed by the OrderVerified event alone: its request was
   answered 202, the StockReserved event of its reservation was lost, and
   nothing is left in flight. *)
C6_ConfirmedByVerification ==
  \E r \in Requests :
    /\ req[r].reply = 202
    /\ req[r].order \in DOMAIN orders
    /\ orders[req[r].order].status = "confirmed"
    /\ \A ev \in BagToSet(ordEvents) : ev.eventType = "OrderConfirmed" =>
         ordEvents[ev] = 1
    /\ \E ev \in BagToSet(invLog) :
         ev.eventType = "OrderVerified" /\ ev.orderId = req[r].order
           /\ ev.recoveredFromCrash
    /\ \A ev \in BagToSet(invLog) : ev.eventType # "StockReserved"
    /\ Quiescent

(* C7: no two order rows have the same non-null idempotency key. *)
C7_OrderKeysUnique ==
  \A o1 \in DOMAIN orders : \A o2 \in DOMAIN orders :
    (o1 # o2 /\ orders[o1].idempotencyKey # NoKey)
    => orders[o1].idempotencyKey # orders[o2].idempotencyKey

(* Two concurrent requests with the same client key both passed the lookups;
   one inserted the order and the other's INSERT was rejected (500, no order). *)
C7_SecondInsertRejected ==
  \E r \in Requests : \E s \in Requests :
    /\ r # s
    /\ req[r].in.key # NoKey /\ req[r].in.key = req[s].in.key
    /\ req[r].pc = "done" /\ req[r].reply = 500 /\ req[r].order = NullId
    /\ s \in DOMAIN orders /\ orders[s].idempotencyKey = req[r].in.key

(* C8: a valid create request whose client key matches a stored order is
   answered in one step with that stored order and the cached marker, and the
   step inserts or updates no order row, publishes no event, enqueues nothing
   and issues no ReserveStock RPC. *)
C8_CachedReplayNoEffect ==
  [][\A r \in Requests :
       LET in == req[r].in
           stored == {o \in DOMAIN orders : orders[o].idempotencyKey = in.key}
       IN
       (/\ req[r].pc = "idle"
        /\ in.customerId # "" /\ in.productId # "" /\ in.quantity > 0
        /\ in.key # NoKey
        /\ stored # {}
        /\ req'[r] # req[r])
       => /\ req'[r].pc = "done"
          /\ req'[r].reply = 200
          /\ req'[r].cached
          /\ \E o \in stored : req'[r].body = bodyOf(orders, o)
          /\ UNCHANGED <<orders, ordEvents, rpc, verifyQ, invEvents, invLog,
                         stock, reservations, audit>>]_vars

(* A request was answered from the stored order. *)
C8_CachedReply ==
  \E r \in Requests :
    /\ req[r].pc = "done" /\ req[r].cached /\ req[r].reply = 200
    /\ req[r].body.orderId \in DOMAIN orders
    /\ req[r].body.orderId # r

(* C9: two create requests with the same client key, both answered, under
   every interleaving: both answers name the same order, and the stock of the
   product was deducted at most once. *)
C9_SameKeySameOrder ==
  (/\ req[1].in.key # NoKey /\ req[1].in.key = req[2].in.key
   /\ req[1].pc = "done" /\ req[2].pc = "done")
  => /\ req[1].body.orderId # NullId
     /\ req[1].body.orderId = req[2].body.orderId
     /\ Cardinality({i \in 1..Len(audit) : audit[i].operation = "reserve"}) <= 1

(* C10: a reserveStock call whose idempotency key already has a reservation
   row leaves stock, reservations and audit log alone (one row for the key,
   one deduction) and returns success, status already_exists, the id of that
   row and the current stock of the product. *)
C10_ReserveIdempotent ==
  [][\A r \in Requests :
       LET existing == reservationsByKey(rpcKey(r)) IN
       (/\ rpc[r].st = "sent"
        /\ existing # {}
        /\ rpc'[r].st = "done" /\ rpc'[r].error = NoText)
       => /\ Cardinality(existing) = 1
          /\ UNCHANGED <<stock, reservations, audit>>
          /\ \E i \in existing :
               /\ rpc'[r].result.success
               /\ rpc'[r].result.status = "already_exists"
               /\ rpc'[r].result.reservationId = reservations[i].id
               /\ rpc'[r].result.remainingStock = stock[reservations[i].productId]]_vars

(* C11: a reserveStock transaction that passed the key lookup and finds, at
   its INSERT, a reservation row with its idempotency key (committed by a
   concurrent transaction) does not succeed and leaves stock, reservations
   and audit log unchanged; no two reservation rows ever share a key. *)
C11_KeyRaceOneCommit ==
  [][/\ \A r \in Requests :
          (/\ rpc[r].st = "locked"
           /\ reservationsByKey(rpcKey(r)) # {}
           /\ rpc'[r].st # "locked")
          => /\ UNCHANGED <<stock, reservations, audit>>
             /\ ~rpc'[r].result.success
     /\ (/\ vh.pc = "locked"
         /\ reservationsByKey(verifyKey(vh.msg.idempotencyKey)) # {}
         /\ vh'.pc # "locked")
        => UNCHANGED <<stock, reservations, audit>>
     /\ \A i \in 1..Len(reservations') : \A j \in 1..Len(reservations') :
          i # j => reservations'[i].idempotencyKey # reservations'[j].idempotencyKey
    ]_vars

(* Two ReserveStock calls with one key both missed the lookup; one committed
   and the other was rolled back at its INSERT, with the stock deducted once. *)
C11_LoserRolledBack ==
  \E r \in Requests :
    /\ rpc[r].st = "done" /\ rpc[r].error = "DB_ERROR"
    /\ Cardinality(reservationsByKey(rpcKey(r))) = 1
    /\ Len(reservations) = 1 /\ Len(audit) = 1
    /\ stock[req[r].in.productId] = InitStock - req[r].in.quantity

(* The stock the transaction of audit row i found: the stock left by the
   preceding audit row of the product, or the seeded stock. *)
stockBefore(i) ==
  LET earlier == {j \in 1..(i - 1) : audit[j].productId = audit[i].productId} IN
  IF earlier = {} THEN InitStock
  ELSE audit[CHOOSE j \in earlier : \A k \in earlier : k <= j].newStock

(* C12: the stock of a product is never negative, and every successful
   reservation found enough stock and deducted its quantity from the stock
   left by the transaction before it. *)
C12_ReserversSerialised ==
  /\ \A p \in ExistingProducts : stock[p] >= 0
  /\ \A i \in 1..Len(audit) :
       audit[i].operation = "reserve"
       => /\ audit[i].previousStock = stockBefore(i)
          /\ audit[i].previousStock >= -audit[i].quantityChange
          /\ audit[i].newStock = audit[i].previousStock + audit[i].quantityChange

(* Two reservers on one product, the stock enough for the first only: one
   reserved, the other locked the row afterwards and found too little. *)
C12_SecondFoundTooLittle ==
  \E r \in Requests : \E s \in Requests :
    /\ r # s
    /\ rpc[r].result.status = "confirmed"
    /\ rpc[s].result.status = "insufficient_stock"
    /\ req[s].in.quantity <= InitStock
    /\ rpc[s].currentStock < req[s].in.quantity
    /\ stock[req[s].in.productId] = rpc[s].currentStock

(* The sum of the quantities of the reservation rows with indexes in rows. *)
RECURSIVE quantitySum(_)
quantitySum(rows) ==
  IF rows = {} THEN 0
  ELSE LET i == CHOOSE j \in rows : TRUE
       IN reservations[i].quantity + quantitySum(rows \ {i})

reservedQuantity(p, status) ==
  quantitySum({i \in 1..Len(reservations) :
                 reservations[i].productId = p /\ reservations[i].status = status})

(* A step changes the stock of a product only together with the insertion of
   an active reservation of the product for the quantity deducted, or with an
   active reservation of the product becoming released for the quantity
   restored. *)
StockChangesWithReservation ==
  \A p \in ExistingProducts :
    stock'[p] # stock[p]
    => \/ /\ Len(reservations') = Len(reservations) + 1
          /\ SubSeq(reservations', 1, Len(reservations)) = reservations
          /\ LET new == reservations'[Len(reservations')] IN
             /\ new.status = "active" /\ new.productId = p
             /\ stock'[p] = stock[p] - new.quantity
       \/ /\ Len(reservations') = Len(reservations)
          /\ \E i \in 1..Len(reservations) :
               /\ reservations[i].status = "active" /\ reservations[i].productId = p
               /\ reservations' = [reservations EXCEPT ![i].status = "released"]
               /\ stock'[p] = stock[p] + reservations[i].quantity

(* C13, as the code has it (no operation adjusts stock): for every product,
   stock + the quantities of its active reservations = the initial stock, in
   every reachable state, and the stock changes only in a step that inserts
   an active reservation (decrement) or marks one released (increment). *)
C13_Conservation ==
  [][/\ \A p \in ExistingProducts :
          stock'[p] + reservedQuantity(p, "active")' = InitStock
     /\ StockChangesWithReservation]_vars

(* C13 as stated: stock + active quantities = initial stock + released
   quantities (there are no audit adjusts). *)
C13_ConservationAsStated ==
  \A p \in ExistingProducts :
    stock[p] + reservedQuantity(p, "active")
      = InitStock + reservedQuantity(p, "released")

(* A reservation was released while another reservation is active. *)
C13_ReleasedAndActive ==
  \E i \in 1..Len(reservations) : \E j \in 1..Len(reservations) :
    /\ reservations[i].status = "released"
    /\ reservations[j].status = "active"
    /\ reservations[i].productId = reservations[j].productId

(* The stock a replay of the audit rows of product p ends with. *)
replayedStock(p) ==
  LET rows == {i \in 1..Len(audit) : audit[i].productId = p} IN
  IF rows = {} THEN InitStock
  ELSE audit[CHOOSE i \in rows : \A k \in rows : k <= i].newStock

(* C14: for every product, every audit row starts from the stock the
   preceding row of the product left (the first from the initial stock) and
   ends with previous_stock + quantity_change, and the last row ends with the
   product's current stock. *)
C14_AuditReplay ==
  /\ \A i \in 1..Len(audit) :
       /\ audit[i].previousStock = stockBefore(i)
       /\ audit[i].newStock = audit[i].previousStock + audit[i].quantityChange
  /\ \A p \in ExistingProducts : replayedStock(p) = stock[p]

(* The audit log holds a reserve, then a release, then another reserve. *)
C14_ReserveReleaseReserve ==
  /\ Len(audit) = 3
  /\ audit[1].operation = "reserve"
  /\ audit[2].operation = "release"
  /\ audit[3].operation = "reserve"

(* C15: after the cancel of an order read as confirmed was answered 200 and
   nothing is in flight any more, the order is cancelled, its reservation is
   released and the stock of the product is what the reservation found. *)
C15_CancelRestoresStock ==
  (/\ cancel.pc = "done" /\ cancel.reply = 200
   /\ cancel.status = "confirmed" /\ cancel.reservationId # NullId
   /\ Quiescent)
  => /\ orders[cancel.order].status = "cancelled"
     /\ \A i \in 1..Len(reservations) :
          reservations[i].id = cancel.reservationId
          => /\ reservations[i].status = "released"
             /\ \A a \in 1..Len(audit) :
                  (audit[a].reservationId = cancel.reservationId
                     /\ audit[a].operation = "reserve")
                  => stock[reservations[i].productId] = audit[a].previousStock

(* C16: when the ReserveStock RPC failed with TIMEOUT or UNAVAILABLE and
   Service Bus accepts the sends of the step, the order is set to
   pending_verification, exactly one VerifyOrder with the order id, the
   product, the quantity and the idempotency key of the request is enqueued,
   OrderPendingVerification is published and the reply is 202. *)
C16_TransportFailureVerifies ==
  [][\A r \in Requests :
       (/\ req[r].pc = "rpc" /\ req'[r].pc = "done" /\ req'[r].timedOut
        /\ failBudget' = failBudget)
       => LET o == req[r].order IN
          /\ req'[r].reply = 202
          /\ orders'[o].status = "pending_verification"
          /\ verifyQ' = put(verifyQ,
                            VerifyOrderMessage(o, req[r].in.productId,
                                               req[r].in.quantity,
                                               orders[o].idempotencyKey))
          /\ ordEvents' = put(ordEvents,
                              OrderEvent("OrderPendingVerification", o, NullId))]_vars

(* A request answered 202 after UNAVAILABLE, or after a deadline that passed
   while the handler held the product row. *)
C16_Answered202 ==
  \E r \in Requests :
    /\ req[r].pc = "done" /\ req[r].timedOut /\ req[r].reply = 202
    /\ rpc[r].st \in {"lost", "locked"}
    /\ Cardinality(BagToSet(verifyQ)) = 1

(* The step of request r is the end of its handler on the branch taken when
   the ReserveStock RPC returned a response, with every send accepted. *)
repliedToResponse(r) ==
  /\ req[r].pc = "rpc" /\ req'[r].pc = "done" /\ ~req'[r].timedOut
  /\ rpc[r].st = "done" /\ rpc[r].error = NoText
  /\ failBudget' = failBudget

(* C17: when the ReserveStock RPC returned success (confirmed or
   already_exists) and Service Bus accepts the publish, the create request
   sets the order to confirmed, stores the reservation id the repository
   returned, publishes OrderConfirmed and replies 201. *)
C17_SuccessConfirms ==
  [][\A r \in Requests :
       (/\ repliedToResponse(r)
        /\ rpc[r].result.status \in {"confirmed", "already_exists"})
       => LET o == req[r].order
              reservationId == rpc[r].result.reservationId
          IN
          /\ orders'[o].status = "confirmed"
          /\ orders'[o].reservationId = reservationId
          /\ reservationId # NullId
          /\ ordEvents' = put(ordEvents, OrderEvent("OrderConfirmed", o, reservationId))
          /\ req'[r].reply = 201]_vars

(* One request was answered 201 on a confirmed result and another on an
   already_exists result. *)
C17_BothSuccessKinds ==
  \E r \in Requests : \E s \in Requests :
    /\ req[r].reply = 201 /\ ~req[r].timedOut /\ rpc[r].result.status = "confirmed"
    /\ req[s].reply = 201 /\ ~req[s].timedOut
    /\ rpc[s].result.status = "already_exists"

(* C18: a reserveStock transaction that ends in insufficient_stock or
   product_not_found leaves stock, reservations and audit log unchanged; and
   when the RPC returned that failure and Service Bus accepts the publish,
   the create request sets the order to failed with the returned reason,
   publishes OrderFailed, replies 400 and changes nothing in the inventory. *)
C18_DomainFailureFails ==
  [][\A r \in Requests :
       /\ (/\ rpc[r].st = "locked" /\ rpc'[r].st = "done"
           /\ rpc'[r].result.status \in {"insufficient_stock", "product_not_found"})
          => UNCHANGED <<stock, reservations, audit>>
       /\ (/\ repliedToResponse(r)
           /\ rpc[r].result.status \in {"insufficient_stock", "product_not_found"})
          => LET o == req[r].order IN
             /\ orders'[o].status = "failed"
             /\ orders'[o].errorMessage = rpc[r].result.message
             /\ orders'[o].errorMessage # NoText
             /\ ordEvents' = put(ordEvents, OrderEvent("OrderFailed", o, NullId))
             /\ req'[r].reply = 400
             /\ UNCHANGED <<stock, reservations, audit>>]_vars

(* A request for more than the stock was answered 400, its order failed with
   the reason, the inventory as seeded. *)
C18_InsufficientAnswered400 ==
  \E r \in Requests :
    /\ req[r].pc = "done" /\ req[r].reply = 400
    /\ rpc[r].result.status = "insufficient_stock"
    /\ orders[req[r].order].status = "failed"
    /\ orders[req[r].order].errorMessage = "Insufficient stock"
    /\ stock[req[r].in.productId] = InitStock /\ reservations = <<>> /\ audit = <<>>

(* C19: a step that ends a create request with 500 on a branch other than
   the TIMEOUT / UNAVAILABLE one, its order row inserted and pending before
   the step, leaves the order pending. *)
C19_ErrorLeavesPending ==
  [][\A r \in Requests :
       LET o == req'[r].order IN
       (/\ req[r].pc # "done" /\ req'[r].pc = "done"
        /\ req'[r].reply = 500 /\ ~req'[r].timedOut
        /\ o \in DOMAIN orders /\ orders[o].status = "pending")
       => orders'[o].status = "pending"]_vars

(* C20: for an order whose create request enqueued a VerifyOrder (answered
   202), with no cancel and no rejected send, whatever number of times the
   message is delivered: once nothing is in flight the order is confirmed
   with exactly one active reservation or failed with none, and its stock was
   deducted at most once. *)
C20_VerifyConverges ==
  \A r \in Requests :
    (/\ req[r].pc = "done" /\ req[r].timedOut /\ req[r].reply = 202
     /\ cancel.pc \in {"off", "idle"}
     /\ sendsRejected = 0
     /\ Quiescent)
    => LET o == req[r].order IN
       /\ \/ /\ orders[o].status = "confirmed"
             /\ Cardinality(activeReservations(o)) = 1
          \/ /\ orders[o].status = "failed"
             /\ activeReservations(o) = {}
       /\ Cardinality(reserveAudits(o)) <= 1

Cancellable == {"pending", "pending_verification", "confirmed"}

(* C21: the cancel route, on the order it reads: for no order it replies 404;
   for a failed or cancelled order it replies 400, and that step changes no
   order, inventory row or queue and publishes nothing; it goes on to cancel
   only an order read as pending, pending_verification or confirmed, so
   every cancel answered 200 read one of these. *)
C21_CancelOnlyLiveOrders ==
  [][/\ (cancel.pc = "idle" /\ cancel'.pc # "idle")
        => LET o == cancel'.order IN
           /\ o \notin DOMAIN orders
                => /\ cancel'.pc = "done" /\ cancel'.reply = 404
                   /\ UNCHANGED <<orders, ordEvents, stock, reservations, audit,
                                  invEvents, invLog, verifyQ, lateRelease>>
           /\ (o \in DOMAIN orders /\ orders[o].status \in {"failed", "cancelled"})
                => /\ cancel'.pc = "done" /\ cancel'.reply = 400
                   /\ UNCHANGED <<orders, ordEvents, stock, reservations, audit,
                                  invEvents, invLog, verifyQ, lateRelease>>
           /\ (o \in DOMAIN orders /\ orders[o].status \in Cancellable)
                => /\ cancel'.pc = "release"
                   /\ cancel'.status = orders[o].status
     /\ (cancel.pc # "done" /\ cancel'.pc = "done" /\ cancel'.reply = 200)
        => cancel.pc = "release" /\ cancel.status \in Cancellable
    ]_vars

(* A second cancel request found the order cancelled and was answered 400. *)
C21_CancelledRefused ==
  /\ cancel.n = 2 /\ cancel.pc = "done" /\ cancel.reply = 400
  /\ orders[cancel.order].status = "cancelled"

(* The step is the successful release of reservation row i: the row becomes
   released, the stock of its product grows by its quantity, one release
   audit row is appended and StockReleased is published. *)
releaseApplied(i) ==
  LET reservation == reservations[i]
      p == reservation.productId
  IN
  /\ reservations' = [reservations EXCEPT ![i].status = "released"]
  /\ stock' = [stock EXCEPT ![p] = stock[p] + reservation.quantity]
  /\ audit' = Append(audit,
        [productId |-> p, operation |-> "release",
         quantityChange |-> reservation.quantity, previousStock |-> stock[p],
         newStock |-> stock[p] + reservation.quantity,
         orderId |-> reservation.orderId, reservationId |-> reservation.id])
  /\ invLog' = put(invLog, StockReleased(reservation.orderId))

releaseAudits(reservationId) ==
  {a \in 1..Len(audit) :
     audit[a].operation = "release" /\ audit[a].reservationId = reservationId}

(* C22: a ReleaseStock call the server runs, for (orderId, reservationId):
   with an active reservation of that id and order it is the successful
   release of that row; with no such row, or a row that is not active, it
   leaves stock, reservations and audit log unchanged and publishes no
   StockReleased.  No reservation changes its status in any other way, and
   no reservation ever has two release audit rows. *)
C22_ReleaseOnlyActive ==
  [][/\ \A rel \in lateRelease \ lateRelease' :
          LET rows == {i \in 1..Len(reservations) :
                         /\ reservations[i].id = rel.reservationId
                         /\ reservations[i].orderId = rel.orderId
                         /\ reservations[i].status = "active"}
          IN IF rows = {} THEN UNCHANGED <<stock, reservations, audit, invLog>>
             ELSE \E i \in rows : releaseApplied(i)
     /\ \A i \in 1..Len(reservations) :
          reservations'[i].status # reservations[i].status
          => reservations[i].status = "active" /\ releaseApplied(i)
     /\ \A i \in 1..Len(reservations') :
          Cardinality({a \in 1..Len(audit') :
                         /\ audit'[a].operation = "release"
                         /\ audit'[a].reservationId = reservations'[i].id}) <= 1
    ]_vars

(* The order was cancelled and its reservation released, an event confirmed
   it again, and a second cancel read it as confirmed and was answered 200:
   the reservation has one release audit row and the stock is the seeded
   stock. *)
C22_SecondReleaseRefused ==
  /\ cancel.n = 2 /\ cancel.pc = "done" /\ cancel.reply = 200
  /\ cancel.status = "confirmed" /\ cancel.reservationId # NullId
  /\ lateRelease = {}
  /\ \E i \in 1..Len(reservations) :
       /\ reservations[i].id = cancel.reservationId
       /\ reservations[i].status = "released"
  /\ Cardinality(releaseAudits(cancel.reservationId)) = 1
  /\ Len(reservations) = 1
  /\ stock["p1"] = InitStock

(* C23: a create request whose customerId, productId or quantity is missing,
   or whose quantity is not positive, is answered 400 by its first step,
   which inserts no order, publishes no event and enqueues nothing; no
   ReserveStock RPC is ever issued for it and no order row is ever its own. *)
C23_InvalidRejected ==
  [][\A r \in Requests :
       LET in == req[r].in IN
       (req[r].pc # "off"
          /\ (in.customerId = "" \/ in.productId = "" \/ in.quantity <= 0))
       => /\ (req[r].pc = "idle" /\ req'[r] # req[r])
               => /\ req'[r].pc = "done" /\ req'[r].reply = 400
                  /\ UNCHANGED <<orders, ordEvents, rpc, verifyQ, invEvents, invLog,
                                 stock, reservations, audit>>
          /\ rpc'[r].st = "none"
          /\ req'[r].order = NullId
          /\ r \notin DOMAIN orders'
    ]_vars

(* A request with a negative quantity was answered 400 and there is no
   order. *)
C23_NegativeQuantityAnswered400 ==
  \E r \in Requests :
    /\ req[r].in.quantity < 0 /\ req[r].in.customerId # "" /\ req[r].in.productId # ""
    /\ req[r].pc = "done" /\ req[r].reply = 400
    /\ orders = <<>> /\ ordEvents = EmptyBag

(* C24: in every reachable state an order whose status is confirmed, failed
   or cancelled has a completed_at. *)
C24_TerminalHasCompletedAt ==
  \A o \in DOMAIN orders :
    orders[o].status \in {"confirmed", "failed", "cancelled"} => orders[o].completedAt

(* An order was cancelled before anything confirmed or failed it. *)
C24_CancelledWhilePending ==
  \E o \in DOMAIN orders :
    /\ orders[o].status = "cancelled" /\ orders[o].completedAt
    /\ orders[o].reservationId = NullId /\ orders[o].errorMessage = NoText
    /\ cancel.pc = "done" /\ cancel.status = "pending"

(* The step ends the handling of VerifyOrder message msg with the message
   completed (acknowledged): the handler returned and the message is not
   back on the queue. *)
verifyAcked(msg) ==
  \/ /\ vh.pc = "idle" /\ vh'.pc = "idle"
     /\ BagIn(msg, verifyQ) /\ verifyQ' = take(verifyQ, msg)
  \/ /\ vh.pc # "idle" /\ vh.msg = msg /\ vh'.pc = "idle"
     /\ verifyQ' = verifyQ

(* C25: a step that acknowledges a VerifyOrder message has published an
   OrderVerified event for the message's order to inventory-events. *)
C25_AckAfterPublish ==
  [][\A msg \in BagToSet(verifyQ) \cup {vh.msg} :
       verifyAcked(msg)
       => \E ev \in BagToSet(invEvents') :
            /\ ev.eventType = "OrderVerified" /\ ev.orderId = msg.orderId
            /\ CopiesIn(ev, invEvents') > CopiesIn(ev, invEvents)]_vars

(* C26: a step in which the order consumer consumes a StockReserved event of
   an existing order, no bus send having been rejected: if the order is pending or pending_verification it
   becomes confirmed with the event's reservation id and OrderConfirmed is
   published; in every other status the order is left as it is, and if it is
   already confirmed with that reservation nothing is published either. *)
C26_StockReservedGuarded ==
  [][\A ev \in BagToSet(invEvents) :
       (/\ ev.eventType = "StockReserved"
        /\ invEvents' = take(invEvents, ev)
        /\ ev.orderId \in DOMAIN orders
        /\ sendsRejected = 0)
       => LET o == ev.orderId IN
          IF orders[o].status \in {"pending", "pending_verification"}
          THEN /\ orders'[o].status = "confirmed"
               /\ orders'[o].reservationId = ev.reservationId
               /\ ordEvents' = put(ordEvents,
                                   OrderEvent("OrderConfirmed", o, ev.reservationId))
          ELSE /\ orders' = orders
               /\ (orders[o].status = "confirmed"
                     /\ orders[o].reservationId = ev.reservationId)
                  => ordEvents' = ordEvents]_vars

(* C27: a verification event (OrderVerified or VerificationComplete) changes
   an order only if the order is in pending_verification when the update is
   applied: read for an order in another status the event is skipped, and an
   update that finds the order in another status (a cancel ran since the
   read) changes no order and publishes nothing. *)
C27_VerificationOnlyWhenPending ==
  [][/\ \A ev \in BagToSet(invEvents) :
          (/\ ev.eventType \in {"OrderVerified", "VerificationComplete"}
           /\ oc.pc = "idle" /\ invEvents' = take(invEvents, ev)
           /\ ev.orderId \in DOMAIN orders
           /\ orders[ev.orderId].status # "pending_verification")
          => oc'.pc = "idle" /\ UNCHANGED <<orders, ordEvents>>
     /\ (/\ oc.pc = "update" /\ oc'.pc = "idle"
         /\ orders[oc.ev.orderId].status # "pending_verification")
        => UNCHANGED <<orders, ordEvents>>]_vars

(* C28: when the VerifyOrder handler receives a message for an order that
   has an active reservation, and Service Bus accepts the send, the step
   publishes one event, OrderVerified with status confirmed,
   recoveredFromCrash true and the id of an active reservation of the order,
   ends the handling, and changes no stock, reservation or audit row. *)
C28_FoundPublishesRecovered ==
  [][\A msg \in BagToSet(verifyQ) :
       (/\ vh.pc = "idle" /\ verifyQ' = take(verifyQ, msg)
        /\ activeReservations(msg.orderId) # {}
        /\ failBudget' = failBudget)
       => /\ vh'.pc = "idle"
          /\ BagCardinality(invEvents') = BagCardinality(invEvents) + 1
          /\ \E ev \in BagToSet(invEvents') : \E i \in activeReservations(msg.orderId) :
               /\ CopiesIn(ev, invEvents') = CopiesIn(ev, invEvents) + 1
               /\ ev.eventType = "OrderVerified" /\ ev.orderId = msg.orderId
               /\ ev.status = "confirmed" /\ ev.recoveredFromCrash
               /\ ev.reservationId = reservations[i].id
          /\ UNCHANGED <<stock, reservations, audit>>]_vars

(* The recovery event of an order's only reservation is on the topic and the
   VerifyOrder message is gone. *)
C28_RecoveredPublished ==
  /\ verifyQ = EmptyBag /\ vh.pc = "idle"
  /\ Len(reservations) = 1 /\ Len(audit) = 1
  /\ \E ev \in BagToSet(invEvents) :
       /\ ev.eventType = "OrderVerified" /\ ev.recoveredFromCrash
       /\ ev.status = "confirmed"
       /\ ev.orderId = reservations[1].orderId
       /\ ev.reservationId = reservations[1].id
       /\ reservations[1].status = "active"

(* C29: when the VerifyOrder handler found no active reservation and its
   reserveStock call returned (no error thrown), Service Bus accepting the
   sends: on success there is a reservation of the order under the key
   "verify-" + the message's key, either inserted by this step with the stock
   deducted or already there, and the step publishes OrderVerified{confirmed,
   recoveredFromCrash false, that reservation's id} and StockReserved with
   that id; on a domain failure it publishes only OrderVerified{not_found,
   recoveredFromCrash false} and changes no stock, reservation or audit row. *)
C29_NotFoundReserves ==
  [][(/\ vh.pc \in {"lookup", "locked"} /\ vh'.pc = "idle"
      /\ verifyQ' = verifyQ
      /\ failBudget' = failBudget)
     => LET msg == vh.msg
            published == invEvents' (-) invEvents
        IN
        \/ \E i \in 1..Len(reservations') :
             /\ reservations'[i].idempotencyKey = "verify-" \o msg.idempotencyKey
             /\ \/ UNCHANGED <<stock, reservations, audit>>
                \/ /\ reservations' = Append(reservations, reservations'[i])
                   /\ reservations'[i].orderId = msg.orderId
                   /\ reservations'[i].quantity = msg.quantity
                   /\ reservations'[i].status = "active"
                   /\ stock'[msg.productId] = stock[msg.productId] - msg.quantity
                   /\ Len(audit') = Len(audit) + 1
             /\ BagCardinality(published) = 2
             /\ \E ev \in BagToSet(published) :
                  /\ ev.eventType = "OrderVerified" /\ ev.orderId = msg.orderId
                  /\ ev.status = "confirmed" /\ ~ev.recoveredFromCrash
                  /\ ev.reservationId = reservations'[i].id
             /\ \E ev \in BagToSet(published) :
                  /\ ev.eventType = "StockReserved" /\ ev.orderId = msg.orderId
                  /\ ev.reservationId = reservations'[i].id
        \/ /\ UNCHANGED <<stock, reservations, audit>>
           /\ BagCardinality(published) = 1
           /\ \E ev \in BagToSet(published) :
                /\ ev.eventType = "OrderVerified" /\ ev.orderId = msg.orderId
                /\ ev.status = "not_found" /\ ~ev.recoveredFromCrash]_vars

(* The verify handler reserved the stock itself: the order's only
   reservation has the derived key and both events are on the topic. *)
C29_VerifyReserved ==
  /\ vh.pc = "idle" /\ Len(reservations) = 1
  /\ \E r \in Requests :
       /\ reservations[1].idempotencyKey = "verify-" \o rpcKey(r)
       /\ reservations[1].orderId = req[r].order
       /\ stock[req[r].in.productId] = InitStock - req[r].in.quantity
  /\ \E ev \in BagToSet(invEvents) :
       /\ ev.eventType = "OrderVerified" /\ ev.status = "confirmed"
       /\ ~ev.recoveredFromCrash /\ ev.reservationId = reservations[1].id
  /\ \E ev \in BagToSet(invEvents) :
       ev.eventType = "StockReserved" /\ ev.reservationId = reservations[1].id

(* C30: when the order consumer applies a verification event to an order
   that is in pending_verification, the order becomes confirmed if the event
   has verified true or status "confirmed" (with the reservation id the event
   carries), and otherwise failed, with the reason the event carries as its
   error message. *)
C30_VerifiedConfirmsElseFails ==
  [][(/\ oc.pc = "update" /\ oc'.pc = "idle"
      /\ orders[oc.ev.orderId].status = "pending_verification")
     => LET ev == oc.ev
            o == ev.orderId
        IN
        IF ev.verified = "true" \/ ev.status = "confirmed"
        THEN /\ orders'[o].status = "confirmed"
             /\ ev.reservationId # Undefined
                  => orders'[o].reservationId = ev.reservationId
        ELSE /\ orders'[o].status = "failed"
             /\ orders'[o].errorMessage # NoText
             /\ ev.reason # NoText => orders'[o].errorMessage = ev.reason]_vars

(* A VerificationComplete event with verified false and a reason failed the
   order with that reason. *)
C30_FailedWithCarriedReason ==
  /\ orders[1].status = "failed" /\ orders[1].errorMessage = "Insufficient stock"
  /\ oc.pc = "idle" /\ invEvents = EmptyBag
  /\ \E ev \in BagToSet(invLog) :
       ev.eventType = "VerificationComplete" /\ ev.verified = "false"

(* C31: the step that ends the cancel of an order read as pending,
   pending_verification or confirmed, Service Bus accepting the publish, sets
   the order to cancelled, publishes OrderCancelled and replies 200, whether
   the ReleaseStock call released the reservation, was refused by the server,
   never reached it, or timed out and runs later. *)
C31_ReleaseFailureDoesNotBlock ==
  [][(/\ cancel.pc = "release" /\ cancel'.pc = "done"
      /\ failBudget' = failBudget)
     => /\ cancel.status \in Cancellable
        /\ orders'[cancel.order].status = "cancelled"
        /\ ordEvents' = put(ordEvents, OrderEvent("OrderCancelled", cancel.order, NullId))
        /\ cancel'.reply = 200]_vars

(* A confirmed order was cancelled with 200 although its ReleaseStock call
   failed in transit: the reservation is still active, no release is pending,
   and OrderCancelled is published. *)
C31_CancelledWithoutRelease ==
  /\ cancel.pc = "done" /\ cancel.reply = 200
  /\ cancel.status = "confirmed" /\ cancel.reservationId # NullId
  /\ lateRelease = {}
  /\ orders[cancel.order].status = "cancelled"
  /\ \E i \in 1..Len(reservations) :
       reservations[i].id = cancel.reservationId /\ reservations[i].status = "active"
  /\ BagIn(OrderEvent("OrderCancelled", cancel.order, NullId), ordEvents)

orphan(ev) ==
  /\ ev.eventType \in {"StockReserved", "OrderVerified", "VerificationComplete"}
  /\ ev.orderId \notin DOMAIN orders

(* C32: a step in which the order consumer takes a StockReserved,
   OrderVerified or VerificationComplete event whose order id has no order
   row completes the message, leaves the handler idle, changes no order and
   publishes nothing; and no step puts such an event back on the
   subscription. *)
C32_OrphanEventAcked ==
  [][\A ev \in BagToSet(invEvents) :
       orphan(ev)
       => /\ (oc.pc = "idle" /\ invEvents' = take(invEvents, ev))
               => /\ oc' = oc
                  /\ UNCHANGED <<orders, ordEvents, verifyQ, stock, reservations,
                                 audit, invLog, failBudget>>
          /\ CopiesIn(ev, invEvents') <= CopiesIn(ev, invEvents)]_vars

(* The orphan event was consumed: the subscription is empty, the handler is
   idle, no order row was created for the orphan id and nothing was published
   for it. *)
C32_OrphanConsumed ==
  /\ invEvents = EmptyBag /\ oc.pc = "idle"
  /\ \E ev \in BagToSet(invLog) : ev.orderId = OrphanOrder
  /\ OrphanOrder \notin DOMAIN orders
  /\ \A e \in BagToSet(ordEvents) : e.orderId # OrphanOrder

(* The StockReserved events a step publishes. *)
stockReservedPublished ==
  {ev \in BagToSet(invLog') :
     ev.eventType = "StockReserved" /\ CopiesIn(ev, invLog') > CopiesIn(ev, invLog)}

(* Every StockReserved event a step publishes names a reservation row that
   is committed when the step ends; a transaction that was rolled back or
   ended in a domain failure publishes none. *)
StockReservedAfterCommit ==
  [][/\ \A ev \in stockReservedPublished :
          \E i \in 1..Len(reservations') : reservations'[i].id = ev.reservationId
     /\ \A r \in Requests :
          (rpc[r].st = "locked" /\ rpc'[r].st = "done")
          => stockReservedPublished = {}]_vars

(* C33: StockReserved is published only for a committed reservation, never
   for a rolled-back or failed one, and the ReserveStock handler that
   published it publishes LowStockAlert next exactly when the stock that
   reservation left (result.remainingStock) is at most the threshold. *)
C33_LowStockAlertOnResultingStock ==
  [][/\ \A ev \in stockReservedPublished :
          \E i \in 1..Len(reservations') : reservations'[i].id = ev.reservationId
     /\ \A r \in Requests :
          /\ (rpc[r].st = "locked" /\ rpc'[r].st = "done")
             => stockReservedPublished = {}
          /\ (rpc[r].st = "published" /\ rpc'[r].st = "done")
             => ((\E ev \in BagToSet(invLog') :
                    /\ ev.eventType = "LowStockAlert"
                    /\ CopiesIn(ev, invLog') > CopiesIn(ev, invLog))
                 <=> rpc[r].result.remainingStock <= lowStockThreshold)]_vars

(* C34: a reserveStock transaction that is rolled back by a transient
   database error (the unique violation of a key committed by a concurrent
   transaction) does not end the RPC with an error: the handler restarts the
   transaction, and only a second failure surfaces.  The handler runs each
   transaction once, so every rollback in a run is a first attempt. *)
C34_TransientRetriedOnce ==
  [][\A r \in Requests :
       (/\ rpc[r].st = "locked" /\ rpc'[r].st = "done"
        /\ reservationsByKey(rpcKey(r)) # {})
       => rpc'[r].error = NoText]_vars

(* C35: the ReserveStock RPC of a create request is issued once, by the step
   that takes the request from createOrder to the call; no other step issues
   it or returns a call to its start.  The step that handles TIMEOUT or
   UNAVAILABLE ends the request, leaves the call as it is (lost, if it never
   arrived) and, Service Bus accepting the sends, enqueues one VerifyOrder. *)
C35_RpcIssuedOnce ==
  [][\A r \in Requests :
       /\ (rpc'[r].st = "sent" /\ rpc[r].st # "sent")
          => /\ rpc[r].st = "none"
             /\ req[r].pc \in {"select", "insert"} /\ req'[r].pc = "rpc"
       /\ (req[r].pc = "rpc" /\ req'[r].timedOut)
          => /\ req'[r].pc = "done"
             /\ rpc'[r] = rpc[r] \/ rpc'[r] = [rpc[r] EXCEPT !.st = "lost"]
             /\ failBudget' = failBudget
                  => BagCardinality(verifyQ') = BagCardinality(verifyQ) + 1]_vars

(* A request whose call never reached the server was answered 202 and the
   call stayed lost: the order's one reservation was made by the VerifyOrder
   handler under the derived key. *)
C35_LostCallNotResent ==
  \E r \in Requests :
    /\ req[r].pc = "done" /\ req[r].timedOut /\ req[r].reply = 202
    /\ rpc[r].st = "lost"
    /\ Quiescent
    /\ Len(reservations) = 1 /\ Len(audit) = 1
    /\ reservations[1].idempotencyKey = verifyKey(rpcKey(r))

(* C36: once nothing is in flight, an order that is failed or cancelled has
   no active reservation.  Stated for the runs in which no bus send was
   rejected and no ReleaseStock call was due (the cancel, if any, read the
   order before it was confirmed), which the claim includes. *)
C36_DeadOrderHoldsNoStock ==
  (/\ Quiescent /\ sendsRejected = 0
   /\ cancel.status # "confirmed")
  => \A o \in DOMAIN orders :
       orders[o].status \in {"failed", "cancelled"} => activeReservations(o) = {}

(* Reservation row id is, after the step, an active reservation of the order
   for the product and the quantity. *)
activeReservationOf(id, orderId, productId, quantity) ==
  \E i \in 1..Len(reservations') :
    /\ reservations'[i].id = id
    /\ reservations'[i].orderId = orderId
    /\ reservations'[i].productId = productId
    /\ reservations'[i].quantity = quantity
    /\ reservations'[i].status = "active"

(* C37: when reserveStock returns success (confirmed or already_exists), to
   the gRPC handler or to the VerifyOrder handler, the reservation id it
   returns is that of an active reservation with the order id, the product
   and the quantity of the call. *)
C37_SuccessReturnsOwnReservation ==
  [][/\ \A r \in Requests :
          (rpc[r].result.status = "none" /\ rpc'[r].result.success)
          => activeReservationOf(rpc'[r].result.reservationId, rpcOrder(r),
                                 req[r].in.productId, req[r].in.quantity)
     /\ (vh.pc \in {"lookup", "locked"} /\ vh'.pc = "idle" /\ verifyQ' = verifyQ)
        => \A ev \in BagToSet(invLog') :
             (/\ CopiesIn(ev, invLog') > CopiesIn(ev, invLog)
              /\ ev.eventType = "OrderVerified" /\ ev.status = "confirmed")
             => activeReservationOf(ev.reservationId, vh.msg.orderId,
                                    vh.msg.productId, vh.msg.quantity)]_vars

(* C38: the timeout path writes pending_verification before it enqueues
   VerifyOrder: in every reachable state the order of a VerifyOrder message
   that is queued or being handled, and the order of an OrderVerified event
   that is on the subscription or being handled, is not in pending. *)
C38_MarkedBeforeEnqueue ==
  /\ \A msg \in BagToSet(verifyQ) \cup (IF vh.pc # "idle" THEN {vh.msg} ELSE {}) :
       /\ msg.orderId \in DOMAIN orders
       /\ orders[msg.orderId].status # "pending"
  /\ \A ev \in BagToSet(invEvents) \cup (IF oc.pc # "idle" THEN {oc.ev} ELSE {}) :
       ev.eventType = "OrderVerified"
       => /\ ev.orderId \in DOMAIN orders
          /\ orders[ev.orderId].status # "pending"

(* The order consumer is applying an OrderVerified event to an order it read
   in pending_verification, and no cancel request has been received. *)
C38_VerifiedMeetsPendingVerification ==
  /\ oc.pc = "update" /\ oc.ev.eventType = "OrderVerified"
  /\ orders[oc.ev.orderId].status = "pending_verification"
  /\ cancel.pc \in {"off", "idle"}

(* C39: the step in which createOrder returned an order and the OrderCreated
   publish was rejected ends the request with 500: no ReserveStock RPC is
   issued, then or later; an order the step inserted is pending and no other
   order changes; nothing is published or enqueued and stock, reservations
   and audit log are unchanged. *)
C39_CreatedPublishFailure ==
  [][\A r \in Requests :
       /\ (/\ req[r].pc \in {"select", "insert"} /\ req'[r].pc # req[r].pc
           /\ failBudget' < failBudget)
          => LET o == req'[r].order IN
             /\ req'[r].pc = "done" /\ req'[r].reply = 500
             /\ o \in DOMAIN orders'
             /\ IF o \in DOMAIN orders THEN orders' = orders
                ELSE /\ orders'[o].status = "pending"
                     /\ \A p \in DOMAIN orders : orders'[p] = orders[p]
             /\ rpc' = rpc /\ rpc[r].st = "none"
             /\ UNCHANGED <<ordEvents, verifyQ, invEvents, invLog, stock,
                            reservations, audit>>
       /\ (req[r].pc = "done" /\ rpc[r].st = "none") => rpc'[r].st = "none"]_vars

(* A request was answered 500 after its OrderCreated publish was rejected:
   its order is pending, no RPC was issued, the inventory is as seeded and
   nothing is queued or published. *)
C39_PendingAfterRejectedPublish ==
  \E r \in Requests :
    /\ req[r].pc = "done" /\ req[r].reply = 500 /\ ~req[r].timedOut
    /\ req[r].order \in DOMAIN orders
    /\ orders[req[r].order].status = "pending"
    /\ rpc[r].st = "none"
    /\ failBudget < MaxBusFail
    /\ ordEvents = EmptyBag /\ verifyQ = EmptyBag /\ invLog = EmptyBag
    /\ stock["p1"] = InitStock /\ reservations = <<>> /\ audit = <<>>

(* C40: every reservation row is active or released, never committed; a step
   keeps every row in its place with its id, order id, product id, quantity
   and key, changes a status only from active to released, and inserts only
   active rows. *)
C40_ReservationLifecycle ==
  [][/\ Len(reservations') >= Len(reservations)
     /\ \A i \in 1..Len(reservations) :
          /\ [reservations'[i] EXCEPT !.status = "any"]
               = [reservations[i] EXCEPT !.status = "any"]
          /\ reservations'[i].status # reservations[i].status
               => /\ reservations[i].status = "active"
                  /\ reservations'[i].status = "released"
     /\ \A i \in (Len(reservations) + 1)..Len(reservations') :
          reservations'[i].status = "active"
     /\ \A i \in 1..Len(reservations') :
          reservations'[i].status \in {"active", "released"}]_vars

(* An order's first reservation was released and stayed released while the
   order was reserved again under another key. *)
C40_ReleasedStaysReleased ==
  /\ Len(reservations) = 2
  /\ reservations[1].status = "released"
  /\ reservations[2].status = "active"
  /\ reservations[1].orderId = reservations[2].orderId

====
